---------------------------- MODULE Spec2Model ----------------------------
(***************************************************************************)
(* Model of the JPE CPSC1 controller driver (crate jpe).                   *)
(*                                                                         *)
(* Text on the wire and every string the driver derives from it is a       *)
(* sequence of one-character strings, so that prefix tests, splitting and  *)
(* formatting are computed the way the Rust code computes them.            *)
(***************************************************************************)
EXTENDS Integers, Sequences, FiniteSets

----------------------------------------------------------------------------
(* Option and Result values *)

None == <<>>

Some(x) == <<x>>

Ok(v) == [ok |-> TRUE, val |-> v]

Err(e) == [ok |-> FALSE, err |-> e]

\* The variants of crate::Error the controller context can return.
Error(kind, msg) == [kind |-> kind, msg |-> msg]

----------------------------------------------------------------------------
(* Text helpers: the str methods the driver uses *)

CR == "\r"

LF == "\n"

TERMINATOR == <<CR, LF>>

SP == " "

COMMA == ","

\* The byte 0xFF, which no UTF-8 text contains.  Every other byte of the
\* model is an ASCII character.
XFF == "0xFF"

\* std::str::from_utf8: the text of the bytes, or the Utf8 error
from_utf8(bytes) ==
    IF \E i \in 1..Len(bytes) : bytes[i] = XFF
    THEN [ok |-> FALSE, err |-> [kind |-> "Utf8", msg |-> <<"invalid utf-8">>]]
    ELSE [ok |-> TRUE, val |-> bytes]

Digit == <<"0", "1", "2", "3", "4", "5", "6", "7", "8", "9">>

Upper == <<"A", "B", "C", "D", "E", "F", "G", "H", "I", "J", "K", "L", "M",
           "N", "O", "P", "Q", "R", "S", "T", "U", "V", "W", "X", "Y", "Z">>

Lower == <<"a", "b", "c", "d", "e", "f", "g", "h", "i", "j", "k", "l", "m",
           "n", "o", "p", "q", "r", "s", "t", "u", "v", "w", "x", "y", "z">>

\* str::starts_with
starts_with(s, p) ==
    /\ Len(s) >= Len(p)
    /\ SubSeq(s, 1, Len(p)) = p

\* <[u8]>::ends_with
ends_with(s, p) ==
    /\ Len(s) >= Len(p)
    /\ SubSeq(s, Len(s) - Len(p) + 1, Len(s)) = p

\* str::strip_suffix: Some(rest) or None
strip_suffix(s, p) ==
    IF ends_with(s, p) THEN Some(SubSeq(s, 1, Len(s) - Len(p))) ELSE None

\* char::to_ascii_lowercase
char_to_ascii_lowercase(c) ==
    IF \E i \in 1..Len(Upper) : Upper[i] = c
    THEN Lower[CHOOSE i \in 1..Len(Upper) : Upper[i] = c]
    ELSE c

\* str::to_ascii_lowercase
to_ascii_lowercase(s) == [i \in 1..Len(s) |-> char_to_ascii_lowercase(s[i])]

\* msg.chars().filter(|c| *c == ch).count()
count_char(s, ch) == Cardinality({i \in 1..Len(s) : s[i] = ch})

\* str::split on one character: always at least one piece
RECURSIVE split(_, _)
split(s, ch) ==
    IF \A i \in 1..Len(s) : s[i] # ch
    THEN <<s>>
    ELSE LET k == CHOOSE i \in 1..Len(s) :
                      /\ s[i] = ch
                      /\ \A j \in 1..(i - 1) : s[j] # ch
         IN  <<SubSeq(s, 1, k - 1)>> \o split(SubSeq(s, k + 1, Len(s)), ch)

is_whitespace(c) == c \in {SP, CR, LF, "\t"}

\* payload.split_whitespace().next().unwrap_or("Unknown")
first_word(s) ==
    IF \A i \in 1..Len(s) : is_whitespace(s[i])
    THEN <<"U", "n", "k", "n", "o", "w", "n">>
    ELSE LET b == CHOOSE i \in 1..Len(s) :
                      /\ ~is_whitespace(s[i])
                      /\ \A j \in 1..(i - 1) : is_whitespace(s[j])
             e == CHOOSE i \in b..Len(s) :
                      /\ \A j \in b..i : ~is_whitespace(s[j])
                      /\ (i = Len(s) \/ is_whitespace(s[i + 1]))
         IN  SubSeq(s, b, e)

\* Display of an unsigned integer (u8, u16, u32, usize)
RECURSIVE fmt_uint(_)
fmt_uint(n) ==
    IF n < 10 THEN <<Digit[n + 1]>>
    ELSE fmt_uint(n \div 10) \o <<Digit[(n % 10) + 1]>>

\* Display of an f32 that is a whole number of tenths; the value is held as
\* its number of tenths (12 is 1.2, 30 is 3.0 and prints as "3").
fmt_f32_tenths(t) ==
    IF t % 10 = 0 THEN fmt_uint(t \div 10)
    ELSE fmt_uint(t \div 10) \o <<".">> \o <<Digit[(t % 10) + 1]>>

\* The pieces of a format string joined by single spaces.
RECURSIVE join_sp(_)
join_sp(parts) ==
    IF Len(parts) = 0 THEN <<>>
    ELSE IF Len(parts) = 1 THEN parts[1]
    ELSE parts[1] \o <<SP>> \o join_sp(Tail(parts))

is_digit(c) == \E i \in 1..Len(Digit) : Digit[i] = c

all_digits(s) == Len(s) > 0 /\ \A i \in 1..Len(s) : is_digit(s[i])

\* str::parse::<u8>() and the like succeed on an optional '+' and decimal
\* digits (the range check is left to the caller's width).
parses_as_uint(s) ==
    \/ all_digits(s)
    \/ Len(s) > 1 /\ s[1] = "+" /\ all_digits(Tail(s))

\* str::parse::<i64>(): an optional sign and decimal digits.
parses_as_int(s) ==
    \/ all_digits(s)
    \/ Len(s) > 1 /\ s[1] \in {"+", "-"} /\ all_digits(Tail(s))

\* str::parse::<f32>() on the decimal forms: an optional sign, digits with
\* at most one '.' and at least one digit.  (Exponent, "inf" and "nan" forms
\* use letters none of the modelled numeric replies contain.)
parses_as_f32(s) ==
    LET body == IF Len(s) > 0 /\ s[1] \in {"+", "-"} THEN Tail(s) ELSE s
    IN  /\ Len(body) > 0
        /\ \A i \in 1..Len(body) : is_digit(body[i]) \/ body[i] = "."
        /\ count_char(body, ".") <= 1
        /\ \E i \in 1..Len(body) : is_digit(body[i])

----------------------------------------------------------------------------
(* config.rs: slots, modules, operating modes, bounds *)

\* enum Slot, held as its u8 value (From<Slot> for u8)
Slots == 1..6

\* Display for Slot
Slot_fmt(slot) == fmt_uint(slot)

\* enum ModuleChannel, held as its u8 value
ModuleChannels == 1..3

\* Display for ModuleChannel
ModuleChannel_fmt(ch) == fmt_uint(ch)

\* enum Direction
Directions == {"Positive", "Negative"}

\* Display for Direction
Direction_fmt(d) == IF d = "Positive" THEN <<"1">> ELSE <<"0">>

\* enum SetpointPosMode
SetpointPosModes == {"Absolute", "Relative"}

\* Display for SetpointPosMode
SetpointPosMode_fmt(m) == IF m = "Absolute" THEN <<"1">> ELSE <<"0">>

\* enum SerialInterface
SerialInterfaces == {"Rs422", "Usb"}

\* enum Module, with the Empty kind the module table starts from
Modules == {"Cadm", "Rsm", "Oem", "Psm", "Edm", "Empty"}

\* enum ControllerOpMode
ControllerOpModes == {"Basedrive", "Servodrive", "Flexdrive"}

\* impl FromStr for Module: case-insensitive prefix match
Module_from_str(s) ==
    LET l == to_ascii_lowercase(s)
    IN  IF starts_with(l, <<"c", "a", "d", "m">>) THEN Ok("Cadm")
        ELSE IF starts_with(l, <<"r", "s", "m">>) THEN Ok("Rsm")
        ELSE IF starts_with(l, <<"o", "e", "m">>) THEN Ok("Oem")
        ELSE IF starts_with(l, <<"p", "s", "m">>) THEN Ok("Psm")
        ELSE IF starts_with(l, <<"e", "d", "m">>) THEN Ok("Edm")
        ELSE Err(Error("InvalidResponse", <<"Unknown module", l>>))

BAUD_MIN == 9600

BAUD_MAX == 1000000

\* DRIVE_FACTOR_BOUNDS 0.1..=3.0, in tenths
DRIVE_FACTOR_MIN == 1

DRIVE_FACTOR_MAX == 30

STEP_FREQ_MAX == 600

RELATIVE_ACTUATOR_STEP_SIZE_MAX == 100

NUM_STEPS_MAX == 50000

TEMP_MAX == 300

SCANNER_LEVEL_MAX == 1023

BAUD_BOUNDS == BAUD_MIN..BAUD_MAX

DRIVE_FACTOR_BOUNDS == DRIVE_FACTOR_MIN..DRIVE_FACTOR_MAX

STEP_FREQ_BOUNDS == 0..STEP_FREQ_MAX

RELATIVE_ACTUATOR_STEP_SIZE_BOUND == 0..RELATIVE_ACTUATOR_STEP_SIZE_MAX

NUM_STEPS_BOUNDS == 0..NUM_STEPS_MAX

TEMP_BOUNDS == 0..TEMP_MAX

SCANNER_LEVEL_BOUNDS == 0..SCANNER_LEVEL_MAX

----------------------------------------------------------------------------
(* transport: commands and frames *)

MAX_FRAME_SIZE == 4096

\* ModuleScope::Any / ModeScope::Any
Any == [any |-> TRUE, only |-> {}]

\* ModuleScope::Only(v) / ModeScope::Only(v)
Only(v) == [any |-> FALSE, only |-> v]

\* Command::new: the payload with the terminator appended
Command_new(allowed_mod, allowed_mode, payload) ==
    [allowed_mod |-> allowed_mod,
     allowed_mode |-> allowed_mode,
     payload |-> payload \o TERMINATOR]

\* Display for Command: the mnemonic
Command_fmt(cmd) == first_word(cmd.payload)

\* enum Frame
Frame(kind, v) == [kind |-> kind, v |-> v]

\* parse_frame taking the whole text as the frame when the terminator is
\* missing.
parse_frame_unterminated_ok(read_buf) ==
    LET text == from_utf8(read_buf)
        stripped == strip_suffix(read_buf, TERMINATOR)
        msg == IF stripped = None THEN read_buf ELSE stripped[1]
    IN  IF ~text.ok THEN text
        ELSE IF starts_with(msg, <<"E", "r", "r", "o", "r">>)
        THEN Ok(Frame("Error", msg))
        ELSE IF count_char(msg, CR) = 0
        THEN Ok(Frame("CommaDelimited", split(msg, COMMA)))
        ELSE Ok(Frame("CrDelimited", split(msg, CR)))

\* parse_frame looking for delimiters before it looks for the Error prefix.
parse_frame_delims_first(read_buf) ==
    LET text == from_utf8(read_buf)
        stripped == strip_suffix(read_buf, TERMINATOR)
    IN  IF ~text.ok THEN text
        ELSE IF stripped = None
        THEN Err(Error("InvalidResponse", <<"Terminator not found">>))
        ELSE LET msg == stripped[1]
             IN  IF count_char(msg, CR) > 0
                 THEN Ok(Frame("CrDelimited", split(msg, CR)))
                 ELSE IF count_char(msg, COMMA) > 0
                 THEN Ok(Frame("CommaDelimited", split(msg, COMMA)))
                 ELSE IF starts_with(msg, <<"E", "r", "r", "o", "r">>)
                 THEN Ok(Frame("Error", msg))
                 ELSE Ok(Frame("CommaDelimited", <<msg>>))

\* parse_frame taking one interior carriage return for part of a
\* comma-delimited text.
parse_frame_two_cr(read_buf) ==
    LET text == from_utf8(read_buf)
        stripped == strip_suffix(read_buf, TERMINATOR)
    IN  IF ~text.ok THEN text
        ELSE IF stripped = None
        THEN Err(Error("InvalidResponse", <<"Terminator not found">>))
        ELSE LET msg == stripped[1]
             IN  IF starts_with(msg, <<"E", "r", "r", "o", "r">>)
                 THEN Ok(Frame("Error", msg))
                 ELSE IF count_char(msg, CR) <= 1
                 THEN Ok(Frame("CommaDelimited", split(msg, COMMA)))
                 ELSE Ok(Frame("CrDelimited", split(msg, CR)))

\* Connection::parse_frame on the bytes accumulated in read_buf
parse_frame(read_buf) ==
    LET text == from_utf8(read_buf)
        stripped == strip_suffix(read_buf, TERMINATOR)
    IN  IF ~text.ok THEN text
        ELSE IF stripped = None
        THEN Err(Error("InvalidResponse", <<"Terminator not found">>))
        ELSE LET msg == stripped[1]
             IN  IF starts_with(msg, <<"E", "r", "r", "o", "r">>)
                 THEN Ok(Frame("Error", msg))
                 ELSE IF count_char(msg, CR) = 0
                 THEN Ok(Frame("CommaDelimited", split(msg, COMMA)))
                 ELSE Ok(Frame("CrDelimited", split(msg, CR)))

\* Transport::parse_frame (transport.rs): the carriage returns are counted
\* in the text the terminator has been stripped from.
transport_rs_parse_frame(read_buf) ==
    LET text == from_utf8(read_buf)
        stripped == strip_suffix(read_buf, TERMINATOR)
    IN  IF ~text.ok THEN text
        ELSE IF stripped = None
        THEN Err(Error("InvalidResponse", <<"Terminator not found">>))
        ELSE LET msg == stripped[1]
             IN  IF starts_with(msg, <<"E", "r", "r", "o", "r">>)
                 THEN Ok(Frame("Error", msg))
                 ELSE IF count_char(msg, CR) = 1
                 THEN Ok(Frame("CommaDelimited", split(msg, COMMA)))
                 ELSE IF count_char(msg, CR) >= 2
                 THEN Ok(Frame("CrDelimited", split(msg, CR)))
                 ELSE Err(Error("InvalidResponse",
                                <<"Malformed Response", msg>>))

\* parse_response counting the carriage returns after the terminator is
\* stripped.
parse_response_count_stripped(read_buffer) ==
    LET text == from_utf8(read_buffer)
        stripped == strip_suffix(read_buffer, TERMINATOR)
    IN  IF ~text.ok THEN text
        ELSE IF stripped = None
        THEN Err(Error("InvalidResponse", <<"Bad terminator">>))
        ELSE IF starts_with(stripped[1], <<"E", "r", "r", "o", "r">>)
        THEN Ok(Frame("Error", stripped[1]))
        ELSE IF count_char(stripped[1], CR) = 1
        THEN Ok(Frame("CommaDelimited", split(stripped[1], COMMA)))
        ELSE IF count_char(stripped[1], CR) >= 2
        THEN Ok(Frame("CrDelimited", split(stripped[1], CR)))
        ELSE Err(Error("InvalidResponse",
                       <<"Malformed Response", read_buffer>>))

\* BaseController::parse_response (base.rs) on the bytes read into the
\* buffer: the same frames, with the carriage returns counted before the
\* terminator is stripped.
parse_response(read_buffer) ==
    LET text == from_utf8(read_buffer)
        stripped == strip_suffix(read_buffer, TERMINATOR)
    IN  IF ~text.ok THEN text
        ELSE IF starts_with(read_buffer, <<"E", "r", "r", "o", "r">>)
        THEN IF stripped = None
             THEN Err(Error("InvalidResponse", <<"Bad terminator">>))
             ELSE Ok(Frame("Error", stripped[1]))
        ELSE IF count_char(read_buffer, CR) = 1
        THEN IF stripped = None
             THEN Err(Error("InvalidResponse",
                            <<"Bad terminator in Comma Delimited branch">>))
             ELSE Ok(Frame("CommaDelimited", split(stripped[1], COMMA)))
        ELSE IF count_char(read_buffer, CR) >= 2
        THEN IF stripped = None
             THEN Err(Error("InvalidResponse",
                            <<"Bad terminator CR delimited branch">>))
             ELSE Ok(Frame("CrDelimited", split(stripped[1], CR)))
        ELSE Err(Error("InvalidResponse",
                       <<"Malformed Response", read_buffer>>))

----------------------------------------------------------------------------
(* The channel behind Box<dyn Transport> *)

\* What the channel does during one transaction: the step that fails with an
\* I/O error ("none" when no step fails) and the bytes the read loop has
\* accumulated when it stops.
Behaviour(fail, reply) == [fail |-> fail, reply |-> reply]

\* A context while one public operation runs on it: the fields of
\* BaseContext, with the connection held as the behaviours the channel will
\* show on the coming transactions (dev), the payloads handed to write_all
\* so far (wrote), the number of transactions that went on to read_chunks
\* (reads) and the dispatches made so far (log).
Ctx(m, f, t, s, dev) ==
    [op_mode |-> m, fw_vers |-> f, modules |-> t, supported_stages |-> s,
     dev |-> dev, wrote |-> <<>>, reads |-> 0, log |-> <<>>,
     starved |-> FALSE]

\* A context paired with the value a function returns.
R(ctx, res) == [ctx |-> ctx, res |-> res]

\* transaction_handler going on to read_chunks although flush failed.
transact_ignoring_flush(ctx, cmd) ==
    IF ctx.dev = <<>>
    THEN R([ctx EXCEPT !.starved = TRUE], Err(Error("Io", <<"starved">>)))
    ELSE LET b == Head(ctx.dev)
             c0 == [ctx EXCEPT !.dev = Tail(ctx.dev)]
             c1 == [c0 EXCEPT !.wrote = Append(ctx.wrote, cmd.payload)]
             c2 == [c1 EXCEPT !.reads = @ + 1]
         IN  CASE b.fail \in {"clear_output_buffer", "clear_input_buffer"} ->
                      R(c0, Err(Error("Io", <<b.fail>>)))
               [] b.fail = "write_all" ->
                      R(c1, Err(Error("Io", <<"write_all">>)))
               [] b.fail = "read" ->
                      R(c2, Err(Error("Io", <<"read">>)))
               [] b.fail = "overflow" ->
                      R(c2, Err(Error("BufOverflow",
                                      <<MAX_FRAME_SIZE, MAX_FRAME_SIZE + 1>>)))
               [] OTHER -> R(c2, parse_frame(b.reply))

\* Connection::transaction_handler: discard output and input, write the
\* payload, flush, read, decode.  A transaction for which no channel
\* behaviour has been drawn yet marks the context as starved.
transact(ctx, cmd) ==
    IF ctx.dev = <<>>
    THEN R([ctx EXCEPT !.starved = TRUE], Err(Error("Io", <<"starved">>)))
    ELSE LET b == Head(ctx.dev)
             c0 == [ctx EXCEPT !.dev = Tail(ctx.dev)]
             c1 == [c0 EXCEPT !.wrote = Append(ctx.wrote, cmd.payload)]
             c2 == [c1 EXCEPT !.reads = @ + 1]
         IN  CASE b.fail = "clear_output_buffer" ->
                      R(c0, Err(Error("Io", <<"clear_output_buffer">>)))
               [] b.fail = "clear_input_buffer" ->
                      R(c0, Err(Error("Io", <<"clear_input_buffer">>)))
               [] b.fail = "write_all" ->
                      R(c1, Err(Error("Io", <<"write_all">>)))
               [] b.fail = "flush" ->
                      R(c1, Err(Error("Io", <<"flush">>)))
               [] b.fail = "read" ->
                      R(c2, Err(Error("Io", <<"read">>)))
               [] b.fail = "overflow" ->
                      R(c2, Err(Error("BufOverflow",
                                      <<MAX_FRAME_SIZE, MAX_FRAME_SIZE + 1>>)))
               [] OTHER -> R(c2, parse_frame(b.reply))

----------------------------------------------------------------------------
(* base/context.rs: internal API *)

\* The thread panics: an index, remove or drain past the end of a list, or
\* an expect on None.  The panic is held as a result of its own kind.
Panic(msg) == Err(Error("panic", msg))

\* v[i - 1], v.remove(0) or v.drain(..=i - 1) on a list shorter than i
index_panic(h, i) ==
    R(h.ctx, Panic(<<"index out of bounds", i, Len(h.res.val)>>))

\* check_command with the mode scope of the command left unread.
check_command_any_mode(ctx, cmd, slot) ==
    IF ~(\/ cmd.allowed_mod.any
         \/ slot = None
         \/ ctx.modules[slot[1]] \in cmd.allowed_mod.only)
    THEN Err(Error("InvalidParams",
                   <<"Unsupported command", Command_fmt(cmd),
                     "for module", ctx.modules[slot[1]]>>))
    ELSE Ok(<<>>)

\* check_command reading the table entry after the one of the slot.
check_command_next_entry(ctx, cmd, slot) ==
    IF ~(cmd.allowed_mode.any \/ ctx.op_mode \in cmd.allowed_mode.only)
    THEN Err(Error("InvalidParams",
                   <<"Unsupported command", Command_fmt(cmd),
                     "in mode", ctx.op_mode>>))
    ELSE IF ~(\/ cmd.allowed_mod.any
              \/ slot = None
              \/ ctx.modules[(slot[1] % 6) + 1] \in cmd.allowed_mod.only)
    THEN Err(Error("InvalidParams",
                   <<"Unsupported command", Command_fmt(cmd),
                     "for module", ctx.modules[(slot[1] % 6) + 1]>>))
    ELSE Ok(<<>>)

\* check_command testing the module scope before the mode scope.
check_command_module_first(ctx, cmd, slot) ==
    IF ~(\/ cmd.allowed_mod.any
         \/ slot = None
         \/ ctx.modules[slot[1]] \in cmd.allowed_mod.only)
    THEN Err(Error("InvalidParams",
                   <<"Unsupported command", Command_fmt(cmd),
                     "for module", ctx.modules[slot[1]]>>))
    ELSE IF ~(cmd.allowed_mode.any \/ ctx.op_mode \in cmd.allowed_mode.only)
    THEN Err(Error("InvalidParams",
                   <<"Unsupported command", Command_fmt(cmd),
                     "in mode", ctx.op_mode>>))
    ELSE Ok(<<>>)

\* BaseContext::check_command
check_command(ctx, cmd, slot) ==
    IF ~(cmd.allowed_mode.any \/ ctx.op_mode \in cmd.allowed_mode.only)
    THEN Err(Error("InvalidParams",
                   <<"Unsupported command", Command_fmt(cmd),
                     "in mode", ctx.op_mode>>))
    ELSE IF ~(\/ cmd.allowed_mod.any
              \/ slot = None
              \/ ctx.modules[slot[1]] \in cmd.allowed_mod.only)
    THEN IF slot = None
         THEN Panic(<<"Slot always present in false case.">>)
         ELSE Err(Error("InvalidParams",
                        <<"Unsupported command", Command_fmt(cmd),
                          "for module", ctx.modules[slot[1]]>>))
    ELSE Ok(<<>>)

\* dispatch_checked repeating the transaction once when the first yields no
\* frame.
dispatch_checked_retry(ctx, cmd, n_resp_vals) ==
    LET t1 == transact(ctx, cmd)
        t == IF t1.res.ok THEN t1 ELSE transact(t1.ctx, cmd)
    IN  IF ~t.res.ok THEN t
        ELSE LET frame == t.res.val
             IN  IF frame.kind = "Error"
                 THEN R(t.ctx, Err(Error("DeviceError", frame.v)))
                 ELSE IF n_resp_vals # None /\ Len(frame.v) # n_resp_vals[1]
                 THEN R(t.ctx, Err(Error("InvalidResponse",
                                         <<"Expected", n_resp_vals[1],
                                           "values, got", Len(frame.v)>>)))
                 ELSE R(t.ctx, Ok(frame.v))

\* dispatch_checked comparing the value count first, an Error frame
\* counting as one value.
dispatch_checked_len_first(ctx, cmd, n_resp_vals) ==
    LET t == transact(ctx, cmd)
    IN  IF ~t.res.ok THEN t
        ELSE LET frame == t.res.val
                 n == IF frame.kind = "Error" THEN 1 ELSE Len(frame.v)
             IN  IF n_resp_vals # None /\ n # n_resp_vals[1]
                 THEN R(t.ctx, Err(Error("InvalidResponse",
                                         <<"Expected", n_resp_vals[1],
                                           "values, got", n>>)))
                 ELSE IF frame.kind = "Error"
                 THEN R(t.ctx, Err(Error("DeviceError", frame.v)))
                 ELSE R(t.ctx, Ok(frame.v))

\* dispatch_checked returning the values of a delimited frame without
\* counting them.
dispatch_checked_no_len(ctx, cmd, n_resp_vals) ==
    LET t == transact(ctx, cmd)
    IN  IF ~t.res.ok THEN t
        ELSE IF t.res.val.kind = "Error"
        THEN R(t.ctx, Err(Error("DeviceError", t.res.val.v)))
        ELSE R(t.ctx, Ok(t.res.val.v))

\* The part of BaseContext::handle_command after validation: transact and
\* map the frame to the value list.
dispatch_checked(ctx, cmd, n_resp_vals) ==
    LET t == transact(ctx, cmd)
    IN  IF ~t.res.ok THEN t
        ELSE LET frame == t.res.val
             IN  IF frame.kind = "Error"
                 THEN R(t.ctx, Err(Error("DeviceError", frame.v)))
                 ELSE IF n_resp_vals # None /\ Len(frame.v) # n_resp_vals[1]
                 THEN R(t.ctx, Err(Error("InvalidResponse",
                                         <<"Expected", n_resp_vals[1],
                                           "values, got", Len(frame.v)>>)))
                 ELSE R(t.ctx, Ok(frame.v))

\* BaseContext::handle_command.  Every dispatch is noted in the log with
\* the command, the slot, the mode and module table it was validated
\* against, what the channel did in its transaction (if it made one), the
\* payloads it wrote and its result.
handle_command(ctx, cmd, n_resp_vals, slot) ==
    LET chk == check_command(ctx, cmd, slot)
        out == IF ~chk.ok THEN R(ctx, chk)
               ELSE dispatch_checked(ctx, cmd, n_resp_vals)
        entry == [cmd |-> cmd, slot |-> slot, n_resp_vals |-> n_resp_vals,
                  op_mode |-> ctx.op_mode, modules |-> ctx.modules,
                  chan |-> IF Len(out.ctx.dev) < Len(ctx.dev)
                           THEN Some(Head(ctx.dev))
                           ELSE None,
                  wrote |-> SubSeq(out.ctx.wrote, Len(ctx.wrote) + 1,
                                   Len(out.ctx.wrote)),
                  read |-> out.ctx.reads > ctx.reads,
                  res |-> out.res]
    IN  R([out.ctx EXCEPT !.log = Append(ctx.log, entry)], out.res)

\* Command::new(ModuleScope::Any, ModeScope::Any, "/STAGES")
STAGES_cmd == Command_new(Any, Any, <<"/", "S", "T", "A", "G", "E", "S">>)

\* get_supported_stages answering from the cache once it is filled.
get_supported_stages_cached(ctx) ==
    IF ctx.supported_stages # <<>>
    THEN R(ctx, Ok(ctx.supported_stages))
    ELSE handle_command(ctx, STAGES_cmd, None, None)

\* get_supported_stages storing the list it returns in the cache.
get_supported_stages_filling(ctx) ==
    LET q == handle_command(ctx, STAGES_cmd, None, None)
    IN  IF ~q.res.ok THEN q
        ELSE R([q.ctx EXCEPT !.supported_stages = q.res.val], q.res)

\* BaseContext::get_supported_stages
get_supported_stages(ctx) == handle_command(ctx, STAGES_cmd, None, None)

\* check_stage asking the device for its catalog on every validation.
check_stage_requery(ctx, stage) ==
    LET q == handle_command(ctx, STAGES_cmd, None, None)
    IN  IF ~q.res.ok THEN q
        ELSE R([q.ctx EXCEPT !.supported_stages = q.res.val],
               Ok(\E i \in 1..Len(q.res.val) : q.res.val[i] = stage))

\* BaseContext::check_stage
check_stage(ctx, stage) ==
    LET known(c) == R(c, Ok(\E i \in 1..Len(c.supported_stages) :
                                c.supported_stages[i] = stage))
    IN  IF ctx.supported_stages = <<>>
        THEN LET q == get_supported_stages(ctx)
             IN  IF ~q.res.ok THEN q
                 ELSE known([q.ctx EXCEPT !.supported_stages = q.res.val])
        ELSE known(ctx)

\* let mut v = self.handle_command(..)?; Ok(v.remove(0))
first_value(h) ==
    IF ~h.res.ok THEN h
    ELSE IF Len(h.res.val) < 1 THEN index_panic(h, 1)
    ELSE R(h.ctx, Ok(h.res.val[1]))

\* Err(Error::DeviceError(format!("Stage {} unsupported", stage)))
stage_unsupported(ctx, stage) ==
    R(ctx, Err(Error("DeviceError", <<"Stage", stage, "unsupported">>)))

\* The value of a string of decimal digits
RECURSIVE digits_value(_)
digits_value(s) ==
    IF Len(s) = 0 THEN 0
    ELSE 10 * digits_value(SubSeq(s, 1, Len(s) - 1))
         + (CHOOSE d \in 0..9 : Digit[d + 1] = s[Len(s)])

\* str::parse for an unsigned type with the given maximum
parse_uint(s, max) ==
    LET body == IF Len(s) > 1 /\ s[1] = "+" THEN Tail(s) ELSE s
    IN  IF parses_as_uint(s) /\ Len(body) <= 9 /\ digits_value(body) <= max
        THEN Ok(digits_value(body))
        ELSE Err(Error("ParseIntError", s))

\* str::parse::<f32>(): the parsed value is kept as its text
parse_f32(s) ==
    IF parses_as_f32(s) THEN Ok(s) ELSE Err(Error("ParseFloatError", s))

\* <Ipv4Addr as FromStr>: four decimal octets of at most three digits, none
\* with a leading zero, separated by dots
parse_ipv4(s) ==
    LET parts == split(s, ".")
        octet_ok(o) == /\ all_digits(o)
                       /\ Len(o) <= 3
                       /\ (Len(o) > 1 => o[1] # "0")
                       /\ digits_value(o) <= 255
    IN  IF Len(parts) = 4 /\ \A i \in 1..4 : octet_ok(parts[i])
        THEN Ok([i \in 1..4 |-> digits_value(parts[i])])
        ELSE Err(Error("AddrParseError", s))

\* Display for Ipv4Addr
Ipv4Addr_fmt(a) ==
    fmt_uint(a[1]) \o <<".">> \o fmt_uint(a[2]) \o <<".">> \o
    fmt_uint(a[3]) \o <<".">> \o fmt_uint(a[4])

U8_MAX == 255

\* str::parse::<u32>(): replies of up to nine digits, all of which fit
parse_u32(s) ==
    LET body == IF Len(s) > 1 /\ s[1] = "+" THEN Tail(s) ELSE s
    IN  IF parses_as_uint(s) /\ Len(body) <= 9
        THEN Ok(digits_value(body))
        ELSE Err(Error("ParseIntError", s))

----------------------------------------------------------------------------
(* base/context.rs: the public operations *)

\* BaseContext::set_ip_config
set_ip_config(ctx, addr_mode, ip_addr, mask, gateway) ==
    LET ip == parse_ipv4(ip_addr)
        mk == parse_ipv4(mask)
        gw == parse_ipv4(gateway)
        zero == <<"0", ".", "0", ".", "0", ".", "0">>
    IN  IF ~ip.ok THEN R(ctx, ip)
        ELSE IF ~mk.ok THEN R(ctx, mk)
        ELSE IF ~gw.ok THEN R(ctx, gw)
        ELSE LET cmd ==
                   IF addr_mode = "Dhcp"
                   THEN Command_new(Any, Any,
                            join_sp(<< <<"/", "I", "P", "S">>,
                                       <<"D", "H", "C", "P">>,
                                       zero, zero, zero >>))
                   ELSE Command_new(Any, Any,
                            join_sp(<< <<"/", "I", "P", "S">>,
                                       <<"S", "T", "A", "T", "I", "C">>,
                                       Ipv4Addr_fmt(ip.val),
                                       Ipv4Addr_fmt(mk.val),
                                       Ipv4Addr_fmt(gw.val) >>))
             IN  first_value(handle_command(ctx, cmd, Some(1), None))

\* get_fw_version asking the device whether or not a version is cached.
get_fw_version_uncached(ctx) ==
    LET cmd == Command_new(Any, Any, <<"/", "V", "E", "R">>)
        h == handle_command(ctx, cmd, Some(1), None)
    IN  IF ~h.res.ok THEN h
        ELSE IF Len(h.res.val) < 1 THEN index_panic(h, 1)
        ELSE R([h.ctx EXCEPT !.fw_vers = h.res.val[1]], Ok(h.res.val[1]))

\* BaseContext::get_fw_version
get_fw_version(ctx) ==
    IF ctx.fw_vers # <<>>
    THEN R(ctx, Ok(ctx.fw_vers))
    ELSE LET cmd == Command_new(Any, Any, <<"/", "V", "E", "R">>)
             h == handle_command(ctx, cmd, Some(1), None)
         IN  IF ~h.res.ok THEN h
             ELSE IF Len(h.res.val) < 1 THEN index_panic(h, 1)
             ELSE R([h.ctx EXCEPT !.fw_vers = h.res.val[1]],
                    Ok(h.res.val[1]))

\* BaseContext::get_mod_fw_version
get_mod_fw_version(ctx, slot) ==
    LET cmd == Command_new(Any, Any,
                   join_sp(<< <<"F", "I", "V">>, Slot_fmt(slot) >>))
    IN  first_value(handle_command(ctx, cmd, Some(1), Some(slot)))

\* The module table written entry by entry while the names are parsed: the
\* entries before the first unknown name are overwritten.
update_modules_partial(ctx, v) ==
    LET parsed == [i \in 1..Len(v) |-> Module_from_str(v[i])]
        bad == {i \in 1..Len(v) : ~parsed[i].ok}
        first == CHOOSE i \in bad : \A j \in bad : i <= j
    IN  IF bad = {}
        THEN R([ctx EXCEPT !.modules = [i \in 1..6 |-> parsed[i].val]],
               Ok(v))
        ELSE R([ctx EXCEPT !.modules =
                    [i \in 1..6 |-> IF i < first THEN parsed[i].val
                                    ELSE ctx.modules[i]]],
               parsed[first])

\* The update of the module table in BaseContext::get_module_list: every
\* name is parsed first; the table is written only if all of them parse.
update_modules(ctx, v) ==
    LET parsed == [i \in 1..Len(v) |-> Module_from_str(v[i])]
    IN  IF \E i \in 1..Len(v) : ~parsed[i].ok
        THEN R(ctx, parsed[CHOOSE i \in 1..Len(v) :
                               /\ ~parsed[i].ok
                               /\ \A j \in 1..(i - 1) : parsed[j].ok])
        ELSE R([ctx EXCEPT !.modules = [i \in 1..6 |-> parsed[i].val]],
               Ok(v))

\* BaseContext::get_module_list
get_module_list(ctx) ==
    LET cmd == Command_new(Any, Any,
                   <<"/", "M", "O", "D", "L", "I", "S", "T">>)
        h == handle_command(ctx, cmd, Some(6), None)
    IN  IF ~h.res.ok THEN h ELSE update_modules(h.ctx, h.res.val)

\* build handing the outcome of the refresh to its caller.
build_propagating(ctx, opened) ==
    IF ~opened THEN R(ctx, Err(Error("Io", <<"open">>)))
    ELSE LET r == get_module_list(ctx)
         IN  IF ~r.res.ok THEN r ELSE R(r.ctx, Ok(<<>>))

\* BaseContextBuilder::build for the serial port and for the network: open
\* the transport, construct the context, refresh the module table once and
\* drop what the refresh returns.  ctx is the context BaseContext::new
\* makes; opened tells whether the transport could be opened.
build(ctx, opened) ==
    IF ~opened THEN R(ctx, Err(Error("Io", <<"open">>)))
    ELSE LET r == get_module_list(ctx)
         IN  R(r.ctx, Ok(<<>>))

\* BaseContext::get_ip_config
get_ip_config(ctx) ==
    handle_command(ctx, Command_new(Any, Any, <<"/", "I", "P", "R">>),
                   Some(5), None)

\* BaseContext::get_baud_rate
get_baud_rate(ctx, ifc) ==
    LET cmd == IF ifc = "Rs422"
               THEN Command_new(Any, Any,
                        <<"/", "G", "B", "R", " ", "R", "S", "4", "2", "2">>)
               ELSE Command_new(Any, Any,
                        <<"/", "G", "B", "R", " ", "U", "S", "B">>)
        h == handle_command(ctx, cmd, Some(1), None)
    IN  IF ~h.res.ok THEN h
        ELSE IF Len(h.res.val) < 1 THEN index_panic(h, 1)
        ELSE R(h.ctx, parse_u32(h.res.val[1]))

\* BaseContext::set_baud_rate
set_baud_rate(ctx, ifc, baud) ==
    IF baud \in BAUD_BOUNDS
    THEN LET cmd == IF ifc = "Rs422"
                    THEN Command_new(Any, Any,
                             join_sp(<< <<"/", "S", "B", "R">>,
                                        <<"R", "S", "4", "2", "2">>,
                                        fmt_uint(baud) >>))
                    ELSE Command_new(Any, Any,
                             join_sp(<< <<"/", "S", "B", "R">>,
                                        <<"U", "S", "B">>,
                                        fmt_uint(baud) >>))
         IN  first_value(handle_command(ctx, cmd, Some(1), None))
    ELSE R(ctx, Err(Error("Bound", <<"baudrate", BAUD_MIN, BAUD_MAX, baud>>)))

\* BaseContext::start_mod_fw_update
start_mod_fw_update(ctx, fname, slot) ==
    LET cmd == Command_new(Any, Any,
                   join_sp(<< <<"F", "U">>, Slot_fmt(slot), fname >>))
        h == handle_command(ctx, cmd, None, Some(slot))
    IN  IF ~h.res.ok THEN h ELSE R(h.ctx, Ok(<<>>))

\* BaseContext::get_fail_safe_state
get_fail_safe_state(ctx, slot) ==
    LET cmd == Command_new(Only({"Cadm"}), Any,
                   join_sp(<< <<"G", "F", "S">>, Slot_fmt(slot) >>))
    IN  first_value(handle_command(ctx, cmd, Some(1), Some(slot)))

\* move_stage_open sending MOV whatever check_stage answered.
move_stage_open_unchecked(ctx, slot, direction, step_freq, r_step_size, n_steps, temp, stage, drive_factor) ==
    IF ~(/\ step_freq \in STEP_FREQ_BOUNDS
         /\ r_step_size \in RELATIVE_ACTUATOR_STEP_SIZE_BOUND
         /\ n_steps \in NUM_STEPS_BOUNDS
         /\ temp \in TEMP_BOUNDS
         /\ drive_factor \in DRIVE_FACTOR_BOUNDS)
    THEN R(ctx, Err(Error("Bound", <<"Input parameter out of bounds.">>)))
    ELSE LET s1 == check_stage(ctx, stage)
         IN  IF ~s1.res.ok THEN s1
             ELSE LET cmd == Command_new(Only({"Cadm"}), Only({"Basedrive"}),
                                 join_sp(<< <<"M", "O", "V">>,
                                            Slot_fmt(slot),
                                            Direction_fmt(direction),
                                            fmt_uint(step_freq),
                                            fmt_uint(r_step_size),
                                            fmt_uint(n_steps),
                                            fmt_uint(temp),
                                            stage,
                                            fmt_f32_tenths(drive_factor) >>))
                  IN  first_value(handle_command(s1.ctx, cmd, Some(1),
                                                 Some(slot)))

\* BaseContext::move_stage_open
move_stage_open(ctx, slot, direction, step_freq, r_step_size, n_steps, temp, stage, drive_factor) ==
    IF ~(/\ step_freq \in STEP_FREQ_BOUNDS
         /\ r_step_size \in RELATIVE_ACTUATOR_STEP_SIZE_BOUND
         /\ n_steps \in NUM_STEPS_BOUNDS
         /\ temp \in TEMP_BOUNDS
         /\ drive_factor \in DRIVE_FACTOR_BOUNDS)
    THEN R(ctx, Err(Error("Bound", <<"Input parameter out of bounds.">>)))
    ELSE LET s1 == check_stage(ctx, stage)
         IN  IF ~s1.res.ok THEN s1
             ELSE IF ~s1.res.val THEN stage_unsupported(s1.ctx, stage)
             ELSE LET cmd == Command_new(Only({"Cadm"}), Only({"Basedrive"}),
                                 join_sp(<< <<"M", "O", "V">>,
                                            Slot_fmt(slot),
                                            Direction_fmt(direction),
                                            fmt_uint(step_freq),
                                            fmt_uint(r_step_size),
                                            fmt_uint(n_steps),
                                            fmt_uint(temp),
                                            stage,
                                            fmt_f32_tenths(drive_factor) >>))
                  IN  first_value(handle_command(s1.ctx, cmd, Some(1),
                                                 Some(slot)))

\* stop_stage recording Basedrive before the device has answered.
stop_stage_optimistic(ctx, slot) ==
    LET cmd == Command_new(Only({"Cadm"}), Only({"Basedrive", "Flexdrive"}),
                   join_sp(<< <<"S", "T", "P">>, Slot_fmt(slot) >>))
        c == [ctx EXCEPT !.op_mode = "Basedrive"]
    IN  first_value(handle_command(c, cmd, Some(1), Some(slot)))

\* BaseContext::stop_stage
stop_stage(ctx, slot) ==
    LET cmd == Command_new(Only({"Cadm"}), Only({"Basedrive", "Flexdrive"}),
                   join_sp(<< <<"S", "T", "P">>, Slot_fmt(slot) >>))
        h == handle_command(ctx, cmd, Some(1), Some(slot))
    IN  IF ~h.res.ok THEN h
        ELSE IF Len(h.res.val) < 1 THEN index_panic(h, 1)
        ELSE R([h.ctx EXCEPT !.op_mode = "Basedrive"], Ok(h.res.val[1]))

\* enable_scan_mode recording Basedrive before it looks at the level.
enable_scan_mode_mode_first(ctx, slot, level) ==
    LET c == [ctx EXCEPT !.op_mode = "Basedrive"]
    IN  IF level \notin SCANNER_LEVEL_BOUNDS
        THEN R(c, Err(Error("Bound",
                            <<"Level", 0, SCANNER_LEVEL_MAX, level>>)))
        ELSE LET cmd == Command_new(Only({"Cadm"}), Only({"Basedrive"}),
                            join_sp(<< <<"S", "D", "C">>, Slot_fmt(slot),
                                       fmt_uint(level) >>))
             IN  first_value(handle_command(c, cmd, Some(1), Some(slot)))

\* BaseContext::enable_scan_mode
enable_scan_mode(ctx, slot, level) ==
    IF level \notin SCANNER_LEVEL_BOUNDS
    THEN R(ctx, Err(Error("Bound", <<"Level", 0, SCANNER_LEVEL_MAX, level>>)))
    ELSE LET cmd == Command_new(Only({"Cadm"}), Only({"Basedrive"}),
                        join_sp(<< <<"S", "D", "C">>, Slot_fmt(slot),
                                   fmt_uint(level) >>))
             c == [ctx EXCEPT !.op_mode = "Basedrive"]
         IN  first_value(handle_command(c, cmd, Some(1), Some(slot)))

\* BaseContext::enable_ext_input_mode
enable_ext_input_mode(ctx, slot, direction, step_freq, r_step_size, temp, stage, drive_factor) ==
    IF ~(/\ step_freq \in STEP_FREQ_BOUNDS
         /\ r_step_size \in RELATIVE_ACTUATOR_STEP_SIZE_BOUND
         /\ temp \in TEMP_BOUNDS
         /\ drive_factor \in DRIVE_FACTOR_BOUNDS)
    THEN R(ctx, Err(Error("Bound", <<"Input parameter out of bounds.">>)))
    ELSE LET s1 == check_stage(ctx, stage)
         IN  IF ~s1.res.ok THEN s1
             ELSE IF ~s1.res.val THEN stage_unsupported(s1.ctx, stage)
             ELSE LET cmd == Command_new(Only({"Cadm"}), Only({"Flexdrive"}),
                                 join_sp(<< <<"E", "X", "T">>,
                                            Slot_fmt(slot),
                                            Direction_fmt(direction),
                                            fmt_uint(step_freq),
                                            fmt_uint(r_step_size),
                                            fmt_uint(temp),
                                            stage,
                                            fmt_f32_tenths(drive_factor) >>))
                      c == [s1.ctx EXCEPT !.op_mode = "Flexdrive"]
                  IN  first_value(handle_command(c, cmd, Some(1), Some(slot)))

\* BaseContext::get_current_position
get_current_position(ctx, slot, ch, stage) ==
    LET s1 == check_stage(ctx, stage)
    IN  IF ~s1.res.ok THEN s1
        ELSE IF ~s1.res.val THEN stage_unsupported(s1.ctx, stage)
        ELSE LET cmd == Command_new(Only({"Rsm"}), Only({"Basedrive"}),
                            join_sp(<< <<"P", "G", "V">>, Slot_fmt(slot),
                                       ModuleChannel_fmt(ch), stage >>))
                 h == handle_command(s1.ctx, cmd, Some(1), Some(slot))
             IN  IF ~h.res.ok THEN h
                 ELSE IF Len(h.res.val) < 1 THEN index_panic(h, 1)
                 ELSE R(h.ctx, parse_f32(h.res.val[1]))

\* BaseContext::get_current_position_all
get_current_position_all(ctx, slot, stage_ch1, stage_ch2, stage_ch3) ==
    LET s1 == check_stage(ctx, stage_ch1)
    IN  IF ~s1.res.ok THEN s1
        ELSE IF ~s1.res.val THEN stage_unsupported(s1.ctx, stage_ch1)
        ELSE
        LET s2 == check_stage(s1.ctx, stage_ch2)
        IN  IF ~s2.res.ok THEN s2
            ELSE IF ~s2.res.val THEN stage_unsupported(s2.ctx, stage_ch2)
            ELSE
            LET s3 == check_stage(s2.ctx, stage_ch3)
            IN  IF ~s3.res.ok THEN s3
                ELSE IF ~s3.res.val THEN stage_unsupported(s3.ctx, stage_ch3)
                ELSE
                LET cmd == Command_new(Only({"Rsm"}), Only({"Basedrive"}),
                               join_sp(<< <<"P", "G", "V", "A">>,
                                          Slot_fmt(slot), stage_ch1,
                                          stage_ch2, stage_ch3 >>))
                    h == handle_command(s3.ctx, cmd, Some(3), Some(slot))
                    n == Len(h.res.val)
                IN  IF ~h.res.ok THEN h
                    ELSE LET f == [i \in 1..n |-> parse_f32(h.res.val[i])]
                         IN  IF \E i \in 1..n : ~f[i].ok
                             THEN R(h.ctx, f[CHOOSE i \in 1..n :
                                               /\ ~f[i].ok
                                               /\ \A j \in 1..(i - 1) : f[j].ok])
                             ELSE IF n < 3 THEN index_panic(h, 3)
                             ELSE R(h.ctx, Ok(<<f[1].val, f[2].val, f[3].val>>))

\* BaseContext::set_neg_end_stop
set_neg_end_stop(ctx, slot, ch) ==
    LET cmd == Command_new(Only({"Rsm"}), Only({"Basedrive"}),
                   join_sp(<< <<"M", "I", "S">>, Slot_fmt(slot),
                              ModuleChannel_fmt(ch) >>))
    IN  first_value(handle_command(ctx, cmd, Some(1), Some(slot)))

\* BaseContext::set_pos_end_stop
set_pos_end_stop(ctx, slot, ch) ==
    LET cmd == Command_new(Only({"Rsm"}), Only({"Basedrive"}),
                   join_sp(<< <<"M", "A", "S">>, Slot_fmt(slot),
                              ModuleChannel_fmt(ch) >>))
    IN  first_value(handle_command(ctx, cmd, Some(1), Some(slot)))

\* BaseController::set_neg_end_stop (base.rs)
base_rs_set_neg_end_stop(ctx, slot, ch) ==
    LET cmd == Command_new(Only({"Rsm"}), Only({"Basedrive"}),
                   join_sp(<< <<"M", "I", "S">>, Slot_fmt(slot),
                              ModuleChannel_fmt(ch) >>))
    IN  first_value(handle_command(ctx, cmd, Some(1), Some(slot)))

\* BaseController::set_pos_end_stop (base.rs)
base_rs_set_pos_end_stop(ctx, slot, ch) ==
    LET cmd == Command_new(Only({"Rsm"}), Only({"Basedrive"}),
                   join_sp(<< <<"M", "I", "S">>, Slot_fmt(slot),
                              ModuleChannel_fmt(ch) >>))
    IN  first_value(handle_command(ctx, cmd, Some(1), Some(slot)))

\* BaseContext::read_neg_end_stop
read_neg_end_stop(ctx, slot, ch, stage) ==
    LET s1 == check_stage(ctx, stage)
    IN  IF ~s1.res.ok THEN s1
        ELSE IF ~s1.res.val THEN stage_unsupported(s1.ctx, stage)
        ELSE LET cmd == Command_new(Only({"Rsm"}), Only({"Basedrive"}),
                            join_sp(<< <<"M", "I", "R">>, Slot_fmt(slot),
                                       ModuleChannel_fmt(ch), stage >>))
                 h == handle_command(s1.ctx, cmd, Some(1), Some(slot))
             IN  IF ~h.res.ok THEN h
                 ELSE IF Len(h.res.val) < 1 THEN index_panic(h, 1)
                 ELSE R(h.ctx, parse_f32(h.res.val[1]))

\* BaseContext::read_pos_end_stop
read_pos_end_stop(ctx, slot, ch, stage) ==
    LET s1 == check_stage(ctx, stage)
    IN  IF ~s1.res.ok THEN s1
        ELSE IF ~s1.res.val THEN stage_unsupported(s1.ctx, stage)
        ELSE LET cmd == Command_new(Only({"Rsm"}), Only({"Basedrive"}),
                            join_sp(<< <<"M", "A", "R">>, Slot_fmt(slot),
                                       ModuleChannel_fmt(ch), stage >>))
                 h == handle_command(s1.ctx, cmd, Some(1), Some(slot))
             IN  IF ~h.res.ok THEN h
                 ELSE IF Len(h.res.val) < 1 THEN index_panic(h, 1)
                 ELSE R(h.ctx, parse_f32(h.res.val[1]))

\* BaseContext::reset_end_stops
reset_end_stops(ctx, slot, ch) ==
    LET cmd == Command_new(Only({"Rsm"}), Only({"Basedrive"}),
                   join_sp(<< <<"M", "M", "R">>, Slot_fmt(slot),
                              ModuleChannel_fmt(ch) >>))
    IN  first_value(handle_command(ctx, cmd, Some(1), Some(slot)))

\* set_excitation_ds accepting every duty cycle up to 100.
set_excitation_ds_contiguous(ctx, slot, duty) ==
    IF ~(duty \in 0..100)
    THEN R(ctx, Err(Error("Bound", <<"Duty cycle", duty>>)))
    ELSE LET cmd == Command_new(Only({"Rsm"}), Only({"Basedrive"}),
                        join_sp(<< <<"E", "X", "S">>, Slot_fmt(slot),
                                   fmt_uint(duty) >>))
         IN  first_value(handle_command(ctx, cmd, Some(1), Some(slot)))

\* BaseContext::set_excitation_ds
set_excitation_ds(ctx, slot, duty) ==
    IF ~(duty = 0 \/ duty \in 10..100)
    THEN R(ctx, Err(Error("Bound", <<"Duty cycle", duty>>)))
    ELSE LET cmd == Command_new(Only({"Rsm"}), Only({"Basedrive"}),
                        join_sp(<< <<"E", "X", "S">>, Slot_fmt(slot),
                                   fmt_uint(duty) >>))
         IN  first_value(handle_command(ctx, cmd, Some(1), Some(slot)))

\* BaseContext::read_excitation_ds
read_excitation_ds(ctx, slot) ==
    LET cmd == Command_new(Only({"Rsm"}), Only({"Basedrive"}),
                   join_sp(<< <<"E", "X", "R">>, Slot_fmt(slot) >>))
        h == handle_command(ctx, cmd, Some(1), Some(slot))
    IN  IF ~h.res.ok THEN h
        ELSE IF Len(h.res.val) < 1 THEN index_panic(h, 1)
        ELSE R(h.ctx, parse_uint(h.res.val[1], U8_MAX))

\* BaseContext::save_rsm_nvram
save_rsm_nvram(ctx, slot) ==
    LET cmd == Command_new(Only({"Rsm"}), Only({"Basedrive"}),
                   join_sp(<< <<"R", "S", "S">>, Slot_fmt(slot) >>))
    IN  first_value(handle_command(ctx, cmd, Some(1), Some(slot)))

\* BaseContext::enable_servodrive
enable_servodrive(ctx, stage_1, init_step_freq_1, stage_2, init_step_freq_2, stage_3, init_step_freq_3, temp, drive_factor) ==
    IF ~(/\ drive_factor \in DRIVE_FACTOR_BOUNDS
         /\ init_step_freq_1 \in STEP_FREQ_BOUNDS
         /\ init_step_freq_2 \in STEP_FREQ_BOUNDS
         /\ init_step_freq_3 \in STEP_FREQ_BOUNDS
         /\ temp \in TEMP_BOUNDS)
    THEN R(ctx, Err(Error("Bound", <<"Input parameter out of bounds">>)))
    ELSE
    LET s1 == check_stage(ctx, stage_1)
    IN  IF ~s1.res.ok THEN s1
        ELSE IF ~s1.res.val THEN stage_unsupported(s1.ctx, stage_1)
        ELSE
        LET s2 == check_stage(s1.ctx, stage_2)
        IN  IF ~s2.res.ok THEN s2
            ELSE IF ~s2.res.val THEN stage_unsupported(s2.ctx, stage_2)
            ELSE
            LET s3 == check_stage(s2.ctx, stage_3)
            IN  IF ~s3.res.ok THEN s3
                ELSE IF ~s3.res.val THEN stage_unsupported(s3.ctx, stage_3)
                ELSE
                LET cmd == Command_new(Any, Any,
                               join_sp(<< <<"F", "B", "E", "N">>,
                                          stage_1, fmt_uint(init_step_freq_1),
                                          stage_2, fmt_uint(init_step_freq_2),
                                          stage_3, fmt_uint(init_step_freq_3),
                                          fmt_f32_tenths(drive_factor),
                                          fmt_uint(temp) >>))
                    c == [s3.ctx EXCEPT !.op_mode = "Servodrive"]
                IN  first_value(handle_command(c, cmd, Some(1), None))

\* BaseContext::disable_servodrive
disable_servodrive(ctx) ==
    LET cmd == Command_new(Any, Only({"Servodrive"}), <<"F", "B", "X", "T">>)
        h == handle_command(ctx, cmd, Some(1), None)
    IN  IF ~h.res.ok THEN h
        ELSE IF Len(h.res.val) < 1 THEN index_panic(h, 1)
        ELSE R([h.ctx EXCEPT !.op_mode = "Basedrive"], Ok(h.res.val[1]))

\* BaseContext::servodrive_em_stop
servodrive_em_stop(ctx) ==
    LET cmd == Command_new(Any, Only({"Servodrive"}), <<"F", "B", "E", "S">>)
        h == handle_command(ctx, cmd, Some(1), None)
    IN  IF ~h.res.ok THEN h
        ELSE IF Len(h.res.val) < 1 THEN index_panic(h, 1)
        ELSE R([h.ctx EXCEPT !.op_mode = "Basedrive"], Ok(h.res.val[1]))

\* BaseContext::go_to_setpoint; a set point is held as its number of tenths
go_to_setpoint(ctx, set_point1, pos_mode_1, set_point2, pos_mode_2, set_point3, pos_mode_3) ==
    LET cmd == Command_new(Any, Only({"Servodrive"}),
                   join_sp(<< <<"F", "B", "C", "S">>,
                              fmt_f32_tenths(set_point1),
                              SetpointPosMode_fmt(pos_mode_1),
                              fmt_f32_tenths(set_point2),
                              SetpointPosMode_fmt(pos_mode_2),
                              fmt_f32_tenths(set_point3),
                              SetpointPosMode_fmt(pos_mode_3) >>))
    IN  first_value(handle_command(ctx, cmd, Some(1), None))

\* str::parse::<i64>(): replies of up to nine digits, all of which fit
parse_i64(s) ==
    LET body == IF Len(s) > 1 /\ s[1] \in {"+", "-"} THEN Tail(s) ELSE s
    IN  IF parses_as_int(s) /\ Len(body) <= 9
        THEN Ok(IF s[1] = "-" THEN 0 - digits_value(body)
                ELSE digits_value(body))
        ELSE Err(Error("ParseIntError", s))

\* What get_servodrive_status makes of the value list: drain(..=4) parsed
\* as u8, the rest parsed as i64, then the three indexed positions.
servodrive_status_of(h) ==
    LET v == h.res.val
        n == Len(v)
        p == [i \in 1..n |-> IF i <= 5 THEN parse_uint(v[i], U8_MAX)
                             ELSE parse_i64(v[i])]
    IN  IF n < 5 THEN index_panic(h, 5)
        ELSE IF \E i \in 1..n : ~p[i].ok
        THEN R(h.ctx, p[CHOOSE i \in 1..n :
                          /\ ~p[i].ok
                          /\ \A j \in 1..(i - 1) : p[j].ok])
        ELSE IF n < 8 THEN index_panic(h, 8)
        ELSE R(h.ctx, Ok([i \in 1..8 |-> p[i].val]))

\* get_servodrive_status taking a status of any number of values.
get_servodrive_status_any_len(ctx) ==
    LET cmd == Command_new(Any, Only({"Servodrive"}), <<"F", "B", "S", "T">>)
        h == handle_command(ctx, cmd, None, None)
    IN  IF ~h.res.ok THEN h ELSE servodrive_status_of(h)

\* BaseContext::get_servodrive_status
get_servodrive_status(ctx) ==
    LET cmd == Command_new(Any, Only({"Servodrive"}), <<"F", "B", "S", "T">>)
        h == handle_command(ctx, cmd, Some(8), None)
    IN  IF ~h.res.ok THEN h ELSE servodrive_status_of(h)

----------------------------------------------------------------------------
(* Inputs: what the caller passes and what the channel does *)

CLA2601 == <<"C", "L", "A", "2", "6", "0", "1">>

CLA2201 == <<"C", "L", "A", "2", "2", "0", "1">>

\* A stage name no catalog of the device lists.
NOSTAGE == <<"X", "Y", "Z">>

StageInputs == {CLA2601, NOSTAGE}

\* Three stage names: all known to the catalog, or one unknown in each place.
StageTriples ==
    {<<CLA2601, CLA2601, CLA2601>>, <<NOSTAGE, CLA2601, CLA2601>>,
     <<CLA2601, NOSTAGE, CLA2601>>, <<CLA2601, CLA2601, NOSTAGE>>}

ChannelInputs == {1, 3}

\* The bytes the read loop may hold when it stops.
DeviceReplies ==
    { \* nothing received before the read loop stopped
      <<>>,
      \* "v8.0/": a reply cut short, no terminator
      <<"v", "8", ".", "0", "/">>,
      \* a reply cut short after a byte that is not UTF-8
      <<"v", XFF>>,
      \* "v8.0\r\n"
      <<"v", "8", ".", "0", CR, LF>>,
      \* "7\r\n"
      <<"7", CR, LF>>,
      \* "\r\n"
      <<CR, LF>>,
      \* "Error 1\r\n"
      <<"E", "r", "r", "o", "r", " ", "1", CR, LF>>,
      \* "CLA2601,CLA2201\r\n"
      CLA2601 \o <<COMMA>> \o CLA2201 \o <<CR, LF>>,
      \* "CADM2,rsm,OEM2,PSM,EDM,CADM2\r\n"
      <<"C", "A", "D", "M", "2", COMMA, "r", "s", "m", COMMA,
        "O", "E", "M", "2", COMMA, "P", "S", "M", COMMA,
        "E", "D", "M", COMMA, "C", "A", "D", "M", "2", CR, LF>>,
      \* "RSM\rCADM2\rEDM\rcadm\rRSM\rPSM\r\n"
      <<"R", "S", "M", CR, "C", "A", "D", "M", "2", CR, "E", "D", "M", CR,
        "c", "a", "d", "m", CR, "R", "S", "M", CR, "P", "S", "M", CR, LF>>,
      \* "CADM2\rCADM2\rRSM\rOEM2\r-\rEDM\r\n"
      <<"C", "A", "D", "M", "2", CR, "C", "A", "D", "M", "2", CR,
        "R", "S", "M", CR, "O", "E", "M", "2", CR, "-", CR,
        "E", "D", "M", CR, LF>> }

ChannelBehaviours ==
    {Behaviour("none", r) : r \in DeviceReplies}
        \cup {Behaviour(f, <<>>) :
                  f \in {"clear_output_buffer", "clear_input_buffer",
                         "write_all", "flush", "read", "overflow"}}

IP_OK == <<"1", "9", "2", ".", "1", "6", "8", ".", "1", ".", "1", "0">>

MASK_OK == <<"2", "5", "5", ".", "2", "5", "5", ".", "2", "5", "5", ".", "0">>

IP_BAD == <<"1", "9", "2", ".", "1", "6", "8", ".", "1">>

FW_FILE == <<"f", "w", ".", "b", "i", "n">>

----------------------------------------------------------------------------
(* The controller context as a state machine *)

VARIABLES
    op_mode,            \* BaseContext.op_mode
    fw_vers,            \* BaseContext.fw_vers
    modules,            \* BaseContext.modules
    supported_stages,   \* BaseContext.supported_stages
    call,               \* the operation that has just returned, if any
    prev_stages,        \* Some(list) when the call before this one was a
                        \* get_supported_stages that returned list
    probe,              \* the input a function is examined on, if any
    decoded,            \* Some(what the function made of the probe)
    conn,               \* the connection while a transaction is followed
                        \* step by step
    py                  \* the builder handles a Python script holds

vars ==
    <<op_mode, fw_vers, modules, supported_stages, call, prev_stages,
      probe, decoded, conn, py>>

\* The connection is not followed step by step: transact stands for it.
Whole == [engine |-> "whole"]

\* No Python script is followed.
NoScript == [handles |-> <<>>]

Idle == [op |-> "idle"]

\* BaseContext::new
Init ==
    /\ op_mode = "Basedrive"
    /\ fw_vers = <<>>
    /\ modules = [i \in 1..6 |-> "Empty"]
    /\ supported_stages = <<>>
    /\ call = Idle
    /\ prev_stages = None
    /\ probe = None
    /\ decoded = None
    /\ conn = Whole
    /\ py = NoScript

\* The operation returns: the fields of the context are left as the
\* operation set them, and call shows what it was given, the fields it
\* started from, what it dispatched and wrote, and its result.
Finish(op, args, r) ==
    /\ op_mode' = r.ctx.op_mode
    /\ fw_vers' = r.ctx.fw_vers
    /\ modules' = r.ctx.modules
    /\ supported_stages' = r.ctx.supported_stages
    /\ call' = [op |-> op, args |-> args,
                before |-> [op_mode |-> op_mode, fw_vers |-> fw_vers,
                            modules |-> modules,
                            supported_stages |-> supported_stages],
                log |-> r.ctx.log, wrote |-> r.ctx.wrote, res |-> r.res]
    /\ UNCHANGED <<prev_stages, probe, decoded, conn, py>>

\* Run one public operation F on the context.  A channel behaviour is drawn
\* for each transaction the operation performs (at most two: the stage
\* catalog query of check_stage and the operation's own command).
Exec(op, args, F(_)) ==
    LET c(dev) == Ctx(op_mode, fw_vers, modules, supported_stages, dev)
        r0 == F(c(<<>>))
    IN  IF ~r0.ctx.starved THEN Finish(op, args, r0)
        ELSE \E b1 \in ChannelBehaviours :
                 LET r1 == F(c(<<b1>>))
                 IN  IF ~r1.ctx.starved THEN Finish(op, args, r1)
                     ELSE \E b2 \in ChannelBehaviours :
                              Finish(op, args, F(c(<<b1, b2>>)))

\* The caller takes the result; the context is ready for the next call.
Return ==
    /\ call # Idle
    /\ call.op # "unbuilt"
    /\ call' = Idle
    /\ prev_stages' = IF call.op = "get_supported_stages" /\ call.res.ok
                      THEN Some(call.res.val)
                      ELSE None
    /\ UNCHANGED <<op_mode, fw_vers, modules, supported_stages,
                   probe, decoded, conn, py>>

----------------------------------------------------------------------------
(* One action per public operation.  An action draws the caller's        *)
(* arguments and the channel's behaviours and applies the operation, which *)
(* Next hands to it.                                                       *)

IpArgs ==
    {<<"Dhcp", IP_OK, MASK_OK, IP_OK>>,
     <<"Static", IP_OK, MASK_OK, IP_OK>>,
     <<"Static", IP_BAD, MASK_OK, IP_OK>>,
     <<"Static", IP_OK, IP_BAD, IP_OK>>,
     <<"Static", IP_OK, MASK_OK, IP_BAD>>}

BaudArgs ==
    {[ifc |-> i, baud |-> b] :
         i \in SerialInterfaces,
         b \in {BAUD_MIN - 1, BAUD_MIN, BAUD_MAX, BAUD_MAX + 1}}

SlotArgs == {[slot |-> s] : s \in Slots}

SlotChannelArgs == {[slot |-> s, ch |-> c] : s \in Slots, c \in ChannelInputs}

SlotStageArgs == {[slot |-> s, stage |-> st] : s \in Slots, st \in StageInputs}

SlotTripleArgs == {[slot |-> s, stages |-> t] : s \in Slots, t \in StageTriples}

ScanArgs ==
    {[slot |-> s, level |-> 512] : s \in Slots}
        \cup {[slot |-> 1, level |-> l] :
                  l \in {0, SCANNER_LEVEL_MAX, SCANNER_LEVEL_MAX + 1}}

DutyArgs ==
    {[slot |-> s, duty |-> 50] : s \in Slots}
        \cup {[slot |-> 2, duty |-> d] : d \in {0, 1, 9, 10, 100, 101, 255}}

\* The arguments of move_stage_open: the values of the repository's tests
\* for every slot and stage name, and each bound exceeded in turn.
MoveArgs ==
    LET base == [slot |-> 1, direction |-> "Positive", step_freq |-> 600,
                 r_step_size |-> 100, n_steps |-> 0, temp |-> 293,
                 stage |-> CLA2601, drive_factor |-> 12]
    IN  {[base EXCEPT !.slot = s, !.stage = st] :
             s \in Slots, st \in StageInputs}
        \cup {[base EXCEPT !.direction = "Negative", !.n_steps = NUM_STEPS_MAX],
              [base EXCEPT !.step_freq = STEP_FREQ_MAX + 1],
              [base EXCEPT !.step_freq = STEP_FREQ_MAX + 1, !.stage = NOSTAGE],
              [base EXCEPT !.r_step_size = RELATIVE_ACTUATOR_STEP_SIZE_MAX + 1],
              [base EXCEPT !.n_steps = NUM_STEPS_MAX + 1],
              [base EXCEPT !.temp = TEMP_MAX + 1],
              [base EXCEPT !.drive_factor = DRIVE_FACTOR_MIN - 1],
              [base EXCEPT !.drive_factor = DRIVE_FACTOR_MAX + 1]}

\* The arguments of enable_ext_input_mode, chosen as for move_stage_open.
ExtArgs ==
    LET base == [slot |-> 1, direction |-> "Positive", step_freq |-> 600,
                 r_step_size |-> 100, temp |-> 293,
                 stage |-> CLA2601, drive_factor |-> 12]
    IN  {[base EXCEPT !.slot = s, !.stage = st] :
             s \in Slots, st \in StageInputs}
        \cup {[base EXCEPT !.direction = "Negative", !.drive_factor = 30],
              [base EXCEPT !.step_freq = STEP_FREQ_MAX + 1],
              [base EXCEPT !.temp = TEMP_MAX + 1, !.stage = NOSTAGE],
              [base EXCEPT !.r_step_size = RELATIVE_ACTUATOR_STEP_SIZE_MAX + 1],
              [base EXCEPT !.temp = TEMP_MAX + 1],
              [base EXCEPT !.drive_factor = DRIVE_FACTOR_MAX + 1]}

\* The arguments of enable_servodrive: every stage triple with the numbers in
\* range, and each bound exceeded in turn.
ServoArgs ==
    LET base == [stages |-> <<CLA2601, CLA2601, CLA2601>>, f1 |-> 600,
                 f2 |-> 0, f3 |-> 300, temp |-> 293, drive_factor |-> 1]
    IN  {[base EXCEPT !.stages = st] : st \in StageTriples}
        \cup {[base EXCEPT !.f1 = STEP_FREQ_MAX + 1],
              [base EXCEPT !.f1 = STEP_FREQ_MAX + 1,
                           !.stages = <<CLA2601, NOSTAGE, CLA2601>>],
              [base EXCEPT !.f2 = STEP_FREQ_MAX + 1],
              [base EXCEPT !.f3 = STEP_FREQ_MAX + 1],
              [base EXCEPT !.temp = TEMP_MAX + 1],
              [base EXCEPT !.drive_factor = DRIVE_FACTOR_MAX + 1]}

SetIpConfig(F(_, _)) ==
    /\ call = Idle
    /\ \E a \in IpArgs :
           Exec("set_ip_config", a, LAMBDA c : F(c, a))

GetFwVersion(F(_)) ==
    /\ call = Idle
    /\ Exec("get_fw_version", <<>>, F)

GetModFwVersion(F(_, _)) ==
    /\ call = Idle
    /\ \E a \in SlotArgs :
           Exec("get_mod_fw_version", a, LAMBDA c : F(c, a))

GetModuleList(F(_)) ==
    /\ call = Idle
    /\ Exec("get_module_list", <<>>, F)

GetSupportedStages(F(_)) ==
    /\ call = Idle
    /\ Exec("get_supported_stages", <<>>, F)

GetIpConfig(F(_)) ==
    /\ call = Idle
    /\ Exec("get_ip_config", <<>>, F)

GetBaudRate(F(_, _)) ==
    /\ call = Idle
    /\ \E a \in {[ifc |-> i] : i \in SerialInterfaces} :
           Exec("get_baud_rate", a, LAMBDA c : F(c, a))

SetBaudRate(F(_, _)) ==
    /\ call = Idle
    /\ \E a \in BaudArgs :
           Exec("set_baud_rate", a, LAMBDA c : F(c, a))

StartModFwUpdate(F(_, _)) ==
    /\ call = Idle
    /\ \E a \in SlotArgs :
           Exec("start_mod_fw_update", a, LAMBDA c : F(c, a))

GetFailSafeState(F(_, _)) ==
    /\ call = Idle
    /\ \E a \in SlotArgs :
           Exec("get_fail_safe_state", a, LAMBDA c : F(c, a))

MoveStageOpen(F(_, _)) ==
    /\ call = Idle
    /\ \E a \in MoveArgs :
           Exec("move_stage_open", a, LAMBDA c : F(c, a))

StopStage(F(_, _)) ==
    /\ call = Idle
    /\ \E a \in SlotArgs :
           Exec("stop_stage", a, LAMBDA c : F(c, a))

EnableScanMode(F(_, _)) ==
    /\ call = Idle
    /\ \E a \in ScanArgs :
           Exec("enable_scan_mode", a, LAMBDA c : F(c, a))

EnableExtInputMode(F(_, _)) ==
    /\ call = Idle
    /\ \E a \in ExtArgs :
           Exec("enable_ext_input_mode", a, LAMBDA c : F(c, a))

GetCurrentPosition(F(_, _)) ==
    /\ call = Idle
    /\ \E a \in SlotStageArgs :
           Exec("get_current_position", a, LAMBDA c : F(c, a))

GetCurrentPositionAll(F(_, _)) ==
    /\ call = Idle
    /\ \E a \in SlotTripleArgs :
           Exec("get_current_position_all", a, LAMBDA c : F(c, a))

SetNegEndStop(F(_, _)) ==
    /\ call = Idle
    /\ \E a \in SlotChannelArgs :
           Exec("set_neg_end_stop", a, LAMBDA c : F(c, a))

SetPosEndStop(F(_, _)) ==
    /\ call = Idle
    /\ \E a \in SlotChannelArgs :
           Exec("set_pos_end_stop", a, LAMBDA c : F(c, a))

ReadNegEndStop(F(_, _)) ==
    /\ call = Idle
    /\ \E a \in SlotStageArgs :
           Exec("read_neg_end_stop", a, LAMBDA c : F(c, a))

ReadPosEndStop(F(_, _)) ==
    /\ call = Idle
    /\ \E a \in SlotStageArgs :
           Exec("read_pos_end_stop", a, LAMBDA c : F(c, a))

ResetEndStops(F(_, _)) ==
    /\ call = Idle
    /\ \E a \in SlotChannelArgs :
           Exec("reset_end_stops", a, LAMBDA c : F(c, a))

SetExcitationDs(F(_, _)) ==
    /\ call = Idle
    /\ \E a \in DutyArgs :
           Exec("set_excitation_ds", a, LAMBDA c : F(c, a))

ReadExcitationDs(F(_, _)) ==
    /\ call = Idle
    /\ \E a \in SlotArgs :
           Exec("read_excitation_ds", a, LAMBDA c : F(c, a))

SaveRsmNvram(F(_, _)) ==
    /\ call = Idle
    /\ \E a \in SlotArgs :
           Exec("save_rsm_nvram", a, LAMBDA c : F(c, a))

EnableServodrive(F(_, _)) ==
    /\ call = Idle
    /\ \E a \in ServoArgs :
           Exec("enable_servodrive", a, LAMBDA c : F(c, a))

DisableServodrive(F(_)) ==
    /\ call = Idle
    /\ Exec("disable_servodrive", <<>>, F)

ServodriveEmStop(F(_)) ==
    /\ call = Idle
    /\ Exec("servodrive_em_stop", <<>>, F)

GoToSetpoint(F(_, _)) ==
    /\ call = Idle
    /\ \E a \in {[mode |-> m] : m \in SetpointPosModes} :
           Exec("go_to_setpoint", a, LAMBDA c : F(c, a))

GetServodriveStatus(F(_)) ==
    /\ call = Idle
    /\ Exec("get_servodrive_status", <<>>, F)

Next ==
    \/ SetIpConfig(LAMBDA c, a : set_ip_config(c, a[1], a[2], a[3], a[4]))
    \/ GetFwVersion(get_fw_version)
    \/ GetModFwVersion(LAMBDA c, a : get_mod_fw_version(c, a.slot))
    \/ GetModuleList(get_module_list)
    \/ GetSupportedStages(get_supported_stages)
    \/ GetIpConfig(get_ip_config)
    \/ GetBaudRate(LAMBDA c, a : get_baud_rate(c, a.ifc))
    \/ SetBaudRate(LAMBDA c, a : set_baud_rate(c, a.ifc, a.baud))
    \/ StartModFwUpdate(LAMBDA c, a : start_mod_fw_update(c, FW_FILE, a.slot))
    \/ GetFailSafeState(LAMBDA c, a : get_fail_safe_state(c, a.slot))
    \/ MoveStageOpen(LAMBDA c, a :
           move_stage_open(c, a.slot, a.direction, a.step_freq, a.r_step_size,
                           a.n_steps, a.temp, a.stage, a.drive_factor))
    \/ StopStage(LAMBDA c, a : stop_stage(c, a.slot))
    \/ EnableScanMode(LAMBDA c, a : enable_scan_mode(c, a.slot, a.level))
    \/ EnableExtInputMode(LAMBDA c, a :
           enable_ext_input_mode(c, a.slot, a.direction, a.step_freq,
                                 a.r_step_size, a.temp, a.stage,
                                 a.drive_factor))
    \/ GetCurrentPosition(LAMBDA c, a :
           get_current_position(c, a.slot, 1, a.stage))
    \/ GetCurrentPositionAll(LAMBDA c, a :
           get_current_position_all(c, a.slot, a.stages[1], a.stages[2],
                                    a.stages[3]))
    \/ SetNegEndStop(LAMBDA c, a : set_neg_end_stop(c, a.slot, a.ch))
    \/ SetPosEndStop(LAMBDA c, a : set_pos_end_stop(c, a.slot, a.ch))
    \/ ReadNegEndStop(LAMBDA c, a : read_neg_end_stop(c, a.slot, 2, a.stage))
    \/ ReadPosEndStop(LAMBDA c, a : read_pos_end_stop(c, a.slot, 3, a.stage))
    \/ ResetEndStops(LAMBDA c, a : reset_end_stops(c, a.slot, a.ch))
    \/ SetExcitationDs(LAMBDA c, a : set_excitation_ds(c, a.slot, a.duty))
    \/ ReadExcitationDs(LAMBDA c, a : read_excitation_ds(c, a.slot))
    \/ SaveRsmNvram(LAMBDA c, a : save_rsm_nvram(c, a.slot))
    \/ EnableServodrive(LAMBDA c, a :
           enable_servodrive(c, a.stages[1], a.f1, a.stages[2], a.f2,
                             a.stages[3], a.f3, a.temp, a.drive_factor))
    \/ DisableServodrive(disable_servodrive)
    \/ ServodriveEmStop(servodrive_em_stop)
    \/ GoToSetpoint(LAMBDA c, a :
           go_to_setpoint(c, 15, a.mode, 0, "Absolute", 20, "Relative"))
    \/ GetServodriveStatus(get_servodrive_status)
    \/ Return

Spec == Init /\ [][Next]_vars

----------------------------------------------------------------------------
(* The controller from the builder on: the context exists once build has *)
(* opened the transport.                                                  *)

Unbuilt == [op |-> "unbuilt"]

\* The builder before build is called; the fields are the ones
\* BaseContext::new will give the context.
InitBuild ==
    /\ op_mode = "Basedrive"
    /\ fw_vers = <<>>
    /\ modules = [i \in 1..6 |-> "Empty"]
    /\ supported_stages = <<>>
    /\ call = Unbuilt
    /\ prev_stages = None
    /\ probe = None
    /\ decoded = None
    /\ conn = Whole
    /\ py = NoScript

\* build is called.  If the transport cannot be opened there is no context
\* and the caller is left with the error; otherwise the context is returned.
Build(F(_, _)) ==
    /\ call.op = "unbuilt"
    /\ \/ /\ call' = [op |-> "unbuilt",
                      res |-> F(Ctx(op_mode, fw_vers, modules,
                                    supported_stages, <<>>), FALSE).res]
          /\ UNCHANGED <<op_mode, fw_vers, modules, supported_stages,
                         prev_stages, probe, decoded, conn, py>>
       \/ Exec("build", <<>>, LAMBDA c : F(c, TRUE))

NextBuild ==
    \/ Build(build)
    \/ Next

SpecBuild == InitBuild /\ [][NextBuild]_vars

----------------------------------------------------------------------------
(* The decoders, the dispatch of both wire encodings and the duty-cycle   *)
(* rule as functions of their input.  The initial state draws the input; *)
(* each action applies one function to it.                                *)

ERROR_PREFIX == <<"E", "r", "r", "o", "r">>

\* The strings out of which the examined responses are put together.
Tokens ==
    {ERROR_PREFIX, <<"E", "r", "r", "o">>, <<"v">>, <<COMMA>>, <<CR>>,
     <<LF>>, <<XFF>>}

\* The most tokens in the body of an examined response.
MaxTokens == 4

RECURSIVE concat(_)
concat(parts) ==
    IF parts = <<>> THEN <<>> ELSE Head(parts) \o concat(Tail(parts))

\* The examined responses: every body of up to MaxTokens tokens, as it
\* stands and followed by the terminator.
Responses ==
    LET bodies == {concat(ts) : ts \in UNION {[1..n -> Tokens] :
                                            n \in 0..MaxTokens}}
    IN  bodies \cup {b \o TERMINATOR : b \in bodies}

\* The values a device sends in a list: none of them holds a comma, a
\* carriage return or a line feed.
WireValues ==
    {<<>>, <<"v", "1">>, <<"E", "r", "r", "o", "r", " ", "1">>,
     <<"e", "r", "r", "o", "r">>, <<"-">>, <<"C", "A", "D", "M", "2">>,
     <<"r", "s", "m">>}

\* The names a module list is drawn from.
WireModules ==
    {<<"C", "A", "D", "M", "2">>, <<"r", "s", "m">>, <<"-">>,
     <<"E", "r", "r", "o", "r", " ", "1">>}

\* The most values in an examined list of arbitrary values.
MaxValues == 3

\* The number of slots of the controller, and of names in a module list.
NumSlots == 6

\* The examined value lists: two to MaxValues arbitrary values, or six names.
ValueLists ==
    UNION {[1..n -> WireValues] : n \in 2..MaxValues}
        \cup [1..NumSlots -> WireModules]

\* The examined duty cycles: every u8 value, for a slot holding an RSM and
\* for a slot holding another module.
DutyProbes == {[kind |-> "duty", slot |-> s, duty |-> d] : s \in {1, 2}, d \in 0..U8_MAX}

\* The examined end-stop arguments: a slot holding an RSM and one holding
\* another module, each channel.
EndStopProbes == {[kind |-> "end_stop", slot |-> s, ch |-> c] : s \in {1, 2}, c \in ModuleChannels}

\* The examined validations: a command of each kind of scope, with and
\* without a slot, in each mode.
ScopeProbes ==
    {[kind |-> "scope", allowed_mod |-> m, allowed_mode |-> o, slot |-> s, op_mode |-> c] :
        m \in {Any, Only({"Rsm"}), Only({"Cadm", "Edm"})},
        o \in {Any, Only({"Basedrive"}), Only({"Servodrive", "Flexdrive"})},
        s \in {None} \cup {Some(k) : k \in Slots},
        c \in ControllerOpModes}

Probes ==
    {[kind |-> "bytes", bytes |-> b] : b \in Responses}
        \cup ScopeProbes
        \cup {[kind |-> "values", values |-> v] : v \in ValueLists}
        \cup DutyProbes
        \cup EndStopProbes

\* A module table as get_module_list leaves it after the response
\* "RSM\rCADM2\rEDM\rcadm\rRSM\rPSM\r\n".
FilledTable == <<"Rsm", "Cadm", "Edm", "Cadm", "Rsm", "Psm">>

InitPure ==
    /\ op_mode = "Basedrive"
    /\ fw_vers = None
    /\ modules = FilledTable
    /\ supported_stages = <<>>
    /\ call = Idle
    /\ prev_stages = None
    /\ probe \in {Some(p) : p \in Probes}
    /\ decoded = None
    /\ conn = Whole
    /\ py = NoScript

\* The function has been applied: decoded holds what it returned.
Decoded(op, out) ==
    /\ decoded' = Some([op |-> op, out |-> out])
    /\ UNCHANGED <<op_mode, fw_vers, modules, supported_stages, call,
                   prev_stages, probe, conn, py>>

\* Connection::parse_frame applied to the examined response
ParseFrame(F(_)) ==
    /\ decoded = None
    /\ probe[1].kind = "bytes"
    /\ Decoded("parse_frame", F(probe[1].bytes))

\* Transport::parse_frame (transport.rs) applied to the examined response
TransportParseFrame(F(_)) ==
    /\ decoded = None
    /\ probe[1].kind = "bytes"
    /\ Decoded("transport_rs_parse_frame", F(probe[1].bytes))

\* BaseController::parse_response applied to the examined response
ParseResponse(F(_)) ==
    /\ decoded = None
    /\ probe[1].kind = "bytes"
    /\ Decoded("parse_response", F(probe[1].bytes))

\* The values joined by a delimiter, as the device sends a list.
RECURSIVE join_with(_, _)
join_with(parts, d) ==
    IF Len(parts) = 0 THEN <<>>
    ELSE IF Len(parts) = 1 THEN parts[1]
    ELSE parts[1] \o <<d>> \o join_with(Tail(parts), d)

\* The response that carries the values joined by the delimiter.
encode(values, d) == join_with(values, d) \o TERMINATOR

\* A context with the recorded fields, whose channel answers the next
\* transaction with the reply.
Answering(reply) ==
    Ctx(op_mode, fw_vers, modules, supported_stages,
        <<Behaviour("none", reply)>>)

\* What the caller sees of an operation: its result and the module table it
\* leaves.
Outcome(r) == [res |-> r.res, modules |-> r.ctx.modules]

\* One operation run twice from the same context, on the examined values in
\* the comma form and in the carriage-return form.
BothEncodings(op, F(_)) ==
    /\ decoded = None
    /\ probe[1].kind = "values"
    /\ Decoded(op, [comma |-> Outcome(F(Answering(encode(probe[1].values,
                                                          COMMA)))),
                    cr |-> Outcome(F(Answering(encode(probe[1].values,
                                                      CR))))])

\* set_excitation_ds applied to the examined slot and duty cycle, against
\* every behaviour of the channel.
SetExcitationDsProbe(F(_, _, _)) ==
    /\ decoded = None
    /\ probe[1].kind = "duty"
    /\ \E b \in ChannelBehaviours :
           LET r == F(Ctx(op_mode, fw_vers, modules, supported_stages, <<b>>),
                      probe[1].slot, probe[1].duty)
           IN  Decoded("set_excitation_ds",
                       [res |-> r.res, wrote |-> r.ctx.wrote,
                        log |-> r.ctx.log])

\* The two end-stop setters of one controller applied to the examined slot
\* and channel, from the same context: what each put on the wire.
EndStops(op, FNeg(_, _, _), FPos(_, _, _)) ==
    /\ decoded = None
    /\ probe[1].kind = "end_stop"
    /\ \E b \in ChannelBehaviours :
           LET c == Ctx(op_mode, fw_vers, modules, supported_stages, <<b>>)
           IN  Decoded(op, [neg |-> FNeg(c, probe[1].slot, probe[1].ch).ctx.wrote,
                            pos |-> FPos(c, probe[1].slot, probe[1].ch).ctx.wrote])

\* check_command applied to the examined command and slot, in the examined
\* mode and with the recorded module table.
CheckCommand(F(_, _, _)) ==
    /\ decoded = None
    /\ probe[1].kind = "scope"
    /\ LET p == probe[1]
       IN  Decoded("check_command",
                   F(Ctx(p.op_mode, fw_vers, modules, supported_stages, <<>>),
                     Command_new(p.allowed_mod, p.allowed_mode, <<"M", "I", "S">>),
                     p.slot))

NextPure ==
    \/ CheckCommand(check_command)
    \/ EndStops("end_stops", set_neg_end_stop, set_pos_end_stop)
    \/ EndStops("base_rs_end_stops", base_rs_set_neg_end_stop,
                base_rs_set_pos_end_stop)
    \/ ParseFrame(parse_frame)
    \/ TransportParseFrame(transport_rs_parse_frame)
    \/ ParseResponse(parse_response)
    \/ BothEncodings("dispatch",
                     LAMBDA c : handle_command(c, STAGES_cmd, None, None))
    \/ BothEncodings("get_module_list", get_module_list)
    \/ SetExcitationDsProbe(set_excitation_ds)

SpecPure == InitPure /\ [][NextPure]_vars

----------------------------------------------------------------------------
(* The transaction engines one step at a time: transport/connection.rs,  *)
(* the older transport.rs, base.rs and transport/connection_async.rs.    *)
(* Bytes are held by their number and by the way they end.               *)

READ_CHUNK_SIZE == 64

READ_BUF_SIZE == 4096

\* Reads of a single byte followed in one transaction.
MaxShort == 1

\* Chunks by which the buffer of the asynchronous engine is followed past
\* MAX_FRAME_SIZE.
MaxGrowth == 2

Engines == {"connection", "transport", "base", "async"}

Media == {"serial", "tcp"}

\* n bytes ending in "crlf", in "cr", in an "lf" that follows no CR, or in
\* anything else ("x"); stale if one of them was in the channel before the
\* transaction began.
Bytes(n, end, stale) == [n |-> n, end |-> end, stale |-> stale]

EmptyBuf == Bytes(0, "x", FALSE)

\* read_buf.ends_with(TERMINATOR.as_bytes())
ends_with_terminator(buf) == buf.end = "crlf"

\* BytesMut::put_slice, copy_from_slice: the chunk is appended
put_slice(buf, chunk) ==
    Bytes(buf.n + chunk.n,
          CASE chunk.end = "crlf" -> "crlf"
            [] chunk.end = "cr" -> "cr"
            [] chunk.end = "lf" /\ chunk.n = 1 /\ buf.end = "cr" -> "crlf"
            [] OTHER -> "x",
          buf.stale \/ chunk.stale)

\* Buf::remaining of a BytesMut: the bytes it holds
remaining(buf) == buf.n

\* What one read of the channel can give: a short or a full chunk, end of
\* stream, a poll artifact, another I/O error, or (awaited reads only) the
\* timeout future elapsing first.
Chunks(stale) ==
    {Bytes(1, e, stale) : e \in {"x", "cr", "lf"}}
        \cup {Bytes(READ_CHUNK_SIZE, e, stale) : e \in {"x", "cr", "crlf"}}

Reads(stale) ==
    {[kind |-> "data", chunk |-> c] : c \in Chunks(stale)}
        \cup {[kind |-> k, chunk |-> EmptyBuf] :
                  k \in {"eof", "would_block", "timed_out", "io", "elapsed"}}

\* The locals and the buffer of read_chunks.
Rd(read_buf, total_b_read) ==
    [read_buf |-> read_buf, total_b_read |-> total_b_read]

\* One iteration of a loop: the locals it leaves, where control goes
\* ("continue", "break" or "return"), what is returned, and whether the
\* input of the channel was discarded on the way.
Flow(rd, to, res, drained) ==
    [rd |-> rd, to |-> to, res |-> res, drained |-> drained]

BufOverflow(max_len, idx) == Err(Error("BufOverflow", <<max_len, idx>>))

Io(at) == Err(Error("Io", <<at>>))

\* read_chunks entering its loop with the buffer as the last transaction
\* left it.
read_chunks_enter_keep(rd) == Rd(rd.read_buf, 0)

\* read_chunks before its loop: total_b_read = 0; read_buf.clear()
read_chunks_enter(rd) == Rd(EmptyBuf, 0)

\* transport/connection.rs: the condition of the while loop
read_chunks_while(rd, elapsed) ==
    ~elapsed /\ ~ends_with_terminator(rd.read_buf)

\* The loop of transport/connection.rs taking a timed-out read for an I/O
\* error.
read_chunks_match_timeout_fatal(rd, o) ==
    CASE o.kind = "data" ->
             LET total_b_read == rd.total_b_read + o.chunk.n
             IN  IF total_b_read > MAX_FRAME_SIZE
                 THEN Flow(Rd(rd.read_buf, total_b_read), "return",
                           BufOverflow(MAX_FRAME_SIZE, total_b_read), FALSE)
                 ELSE Flow(Rd(put_slice(rd.read_buf, o.chunk), total_b_read),
                           "continue", None, FALSE)
      [] o.kind = "eof" -> Flow(rd, "break", None, FALSE)
      [] o.kind = "would_block" -> Flow(rd, "continue", None, FALSE)
      [] OTHER -> Flow(rd, "return", Io("read"), FALSE)

\* The loop of transport/connection.rs appending the whole chunk buffer
\* instead of the bytes the read gave.
read_chunks_match_whole_chunk(rd, o) ==
    CASE o.kind = "data" ->
             LET total_b_read == rd.total_b_read + o.chunk.n
                 chunk_buf == Bytes(READ_CHUNK_SIZE,
                                    IF o.chunk.n = READ_CHUNK_SIZE
                                    THEN o.chunk.end ELSE "x",
                                    o.chunk.stale)
             IN  IF total_b_read > MAX_FRAME_SIZE
                 THEN Flow(Rd(rd.read_buf, total_b_read), "return",
                           BufOverflow(MAX_FRAME_SIZE, total_b_read), FALSE)
                 ELSE Flow(Rd(put_slice(rd.read_buf, chunk_buf), total_b_read),
                           "continue", None, FALSE)
      [] o.kind = "eof" -> Flow(rd, "break", None, FALSE)
      [] o.kind \in {"would_block", "timed_out"} ->
             Flow(rd, "continue", None, FALSE)
      [] OTHER -> Flow(rd, "return", Io("read"), FALSE)

\* transport/connection.rs: the match on one read
read_chunks_match(rd, o) ==
    CASE o.kind = "data" ->
             LET total_b_read == rd.total_b_read + o.chunk.n
             IN  IF total_b_read > MAX_FRAME_SIZE
                 THEN Flow(Rd(rd.read_buf, total_b_read), "return",
                           BufOverflow(MAX_FRAME_SIZE, total_b_read), FALSE)
                 ELSE Flow(Rd(put_slice(rd.read_buf, o.chunk), total_b_read),
                           "continue", None, FALSE)
      [] o.kind = "eof" -> Flow(rd, "break", None, FALSE)
      [] o.kind \in {"would_block", "timed_out"} ->
             Flow(rd, "continue", None, FALSE)
      [] OTHER -> Flow(rd, "return", Io("read"), FALSE)

\* transport.rs: the condition of the while loop
transport_rs_while(rd, elapsed) ==
    ~elapsed \/ ~ends_with_terminator(rd.read_buf)

\* transport.rs: the match on one read.  On overflow the buffer and the
\* input of the channel are cleared; otherwise the whole chunk buffer is
\* appended, which ends as the chunk does only if the read filled it.
transport_rs_match(rd, o) ==
    CASE o.kind = "data" ->
             LET total_b_read == rd.total_b_read + o.chunk.n
                 chunk_buf == Bytes(READ_CHUNK_SIZE,
                                    IF o.chunk.n = READ_CHUNK_SIZE
                                    THEN o.chunk.end ELSE "x",
                                    o.chunk.stale)
             IN  IF \/ total_b_read > MAX_FRAME_SIZE
                    \/ o.chunk.n > remaining(rd.read_buf)
                 THEN Flow(Rd(EmptyBuf, total_b_read), "return",
                           BufOverflow(MAX_FRAME_SIZE, total_b_read), TRUE)
                 ELSE Flow(Rd(put_slice(rd.read_buf, chunk_buf), total_b_read),
                           "continue", None, FALSE)
      [] o.kind = "eof" -> Flow(rd, "break", None, FALSE)
      [] o.kind \in {"would_block", "timed_out"} ->
             Flow(rd, "continue", None, FALSE)
      [] OTHER -> Flow(rd, "return", Io("read"), FALSE)

\* base.rs: the condition of the while loop
base_rs_while(rd, elapsed) == ~elapsed

\* base.rs: the match on one read and the test for the terminator that
\* follows it
base_rs_match(rd, o) ==
    CASE o.kind = "data" ->
             IF rd.total_b_read + o.chunk.n <= READ_BUF_SIZE
             THEN LET buf == put_slice(rd.read_buf, o.chunk)
                  IN  Flow(Rd(buf, rd.total_b_read + o.chunk.n),
                           IF ends_with_terminator(buf) THEN "break"
                           ELSE "continue",
                           None, FALSE)
             ELSE Flow(rd, "return",
                       BufOverflow(READ_BUF_SIZE,
                                   rd.total_b_read + o.chunk.n), FALSE)
      [] o.kind = "eof" -> Flow(rd, "break", None, FALSE)
      [] o.kind \in {"would_block", "timed_out"} ->
             Flow(rd, "continue", None, FALSE)
      [] OTHER -> Flow(rd, "return", Io("read"), FALSE)

\* transport/connection_async.rs: the condition of the while loop
async_while(rd, elapsed) == ~ends_with_terminator(rd.read_buf)

\* transport/connection_async.rs: the match on one awaited read; read_buf
\* appends to the buffer, which grows as needed
async_match(rd, o) ==
    CASE o.kind = "data" ->
             Flow(Rd(put_slice(rd.read_buf, o.chunk), rd.total_b_read),
                  "continue", None, FALSE)
      [] o.kind = "eof" -> Flow(rd, "break", None, FALSE)
      [] o.kind \in {"would_block", "timed_out"} ->
             Flow(rd, "continue", None, FALSE)
      [] o.kind = "elapsed" -> Flow(rd, "break", None, FALSE)
      [] OTHER -> Flow(Rd(EmptyBuf, rd.total_b_read), "return",
                       Io("read"), FALSE)

while_of(engine, rd, elapsed) ==
    CASE engine = "connection" -> read_chunks_while(rd, elapsed)
      [] engine = "transport" -> transport_rs_while(rd, elapsed)
      [] engine = "base" -> base_rs_while(rd, elapsed)
      [] OTHER -> async_while(rd, elapsed)

match_of(engine, rd, o) ==
    CASE engine = "connection" -> read_chunks_match(rd, o)
      [] engine = "transport" -> transport_rs_match(rd, o)
      [] engine = "base" -> base_rs_match(rd, o)
      [] OTHER -> async_match(rd, o)

\* BufClear for TcpStream, clear_input_buffer: the match on one read of
\* the drain loop
clear_input_buffer_tcp(o) ==
    CASE o.kind = "data" -> "continue"
      [] o.kind \in {"eof", "would_block"} -> "break"
      [] OTHER -> "return"

\* transaction_handler discarding the input only after the read.
steps_late_clear(engine, medium) ==
    <<"clear_output", "write_all", "flush", "read_chunks", "clear_input",
      "parse">>

\* transact of connection_async.rs without the discard of the input.
steps_async_unclear(engine, medium) ==
    CASE engine = "connection" ->
             <<"clear_output", "clear_input", "write_all", "flush",
               "read_chunks", "parse">>
      [] engine = "transport" ->
             <<"clear_output", "write_all", "flush", "read_chunks",
               "clear_input_ignored", "parse">>
      [] engine = "async" ->
             <<"clear_output", "write_all", "flush", "read_chunks", "parse">>
      [] engine = "base" /\ medium = "serial" ->
             <<"clear_output", "write_all", "read_chunks", "clear_input",
               "parse">>
      [] OTHER ->
             <<"write_all", "read_chunks", "clear_input", "parse">>

\* The calls of the handler in their order: transaction_handler of
\* connection.rs and of transport.rs, transact of connection_async.rs,
\* comms_handler and read_into_buffer of base.rs.
steps(engine, medium) ==
    CASE engine = "connection" ->
             <<"clear_output", "clear_input", "write_all", "flush",
               "read_chunks", "parse">>
      [] engine = "transport" ->
             <<"clear_output", "write_all", "flush", "read_chunks",
               "clear_input_ignored", "parse">>
      [] engine = "async" ->
             <<"clear_input", "clear_output", "write_all", "flush",
               "read_chunks", "parse">>
      [] engine = "base" /\ medium = "serial" ->
             <<"clear_output", "write_all", "read_chunks", "clear_input",
               "parse">>
      [] OTHER ->
             <<"write_all", "read_chunks", "clear_input", "parse">>

\* The call the handler is at; "idle" between transactions.
At == IF conn.pc = 0 THEN "idle" ELSE steps(conn.engine, conn.medium)[conn.pc]

\* A connection just opened.  Beside the buffer and the locals of the read
\* loop it records, for the transaction under way: whether the deadline of
\* the read loop has passed (expired), whether stale bytes wait in the
\* channel (chan_stale) and did when the transaction began (began_stale),
\* what was discarded so far, whether the payload was
\* written after both discards (wrote_clean), the bytes the reads have
\* delivered, the last read outcome in the read loop and the bytes it gave
\* (last_n), and whether a read
\* was issued with the deadline passed or the terminator matched (late);
\* res is what the last transaction returned and prev what the one before
\* it returned ("cancelled" if its future was dropped).
NewConn(engine, medium) ==
    [engine |-> engine, medium |-> medium, pc |-> 0,
     rd |-> Rd(EmptyBuf, 0), reading |-> FALSE, expired |-> FALSE,
     polls |-> 0, shorts |-> 0, chan_stale |-> FALSE, began_stale |-> FALSE,
     cleared_in |-> FALSE, cleared_out |-> FALSE, wrote_clean |-> FALSE,
     delivered |-> 0, last |-> "none", last_n |-> 0, late |-> FALSE,
     res |-> None, prev |-> "none"]

InitRead ==
    /\ op_mode = "Basedrive"
    /\ fw_vers = <<>>
    /\ modules = [i \in 1..6 |-> "Empty"]
    /\ supported_stages = <<>>
    /\ call = Idle
    /\ prev_stages = None
    /\ probe = None
    /\ decoded = None
    /\ conn \in {NewConn(e, m) : e \in Engines, m \in Media}
    /\ py = NoScript

ResKind(res) ==
    IF res = None THEN "none" ELSE IF res[1].ok THEN "Frame"
    ELSE res[1].err.kind

Context ==
    <<op_mode, fw_vers, modules, supported_stages, call, prev_stages, probe,
      decoded, py>>

\* The handler goes on to its next call.
Advance(c) == [c EXCEPT !.pc = c.pc + 1, !.reading = FALSE]

\* The handler returns res to the context.
Returns(c, res) == [c EXCEPT !.pc = 0, !.reading = FALSE, !.res = Some(res)]

\* The context calls transact.
Begin ==
    /\ At = "idle"
    /\ conn' = [conn EXCEPT !.pc = 1, !.res = None,
                            !.prev = IF conn.last = "cancelled"
                                     THEN "cancelled"
                                     ELSE ResKind(conn.res),
                            !.began_stale = conn.chan_stale,
                            !.expired = FALSE, !.polls = 0, !.shorts = 0,
                            !.cleared_in = FALSE, !.cleared_out = FALSE,
                            !.wrote_clean = FALSE, !.delivered = 0,
                            !.last = "none", !.last_n = 0, !.late = FALSE]
    /\ UNCHANGED Context

\* Between two transactions bytes reach the channel that nobody reads: a
\* reply that came too late, or the rest of one that was cut off.
LateBytes ==
    /\ At = "idle"
    /\ ~conn.chan_stale
    /\ conn' = [conn EXCEPT !.chan_stale = TRUE]
    /\ UNCHANGED Context

\* clear_output_buffer: a no-op on TCP, discard_output_buffer on serial
ClearOutput ==
    /\ At = "clear_output"
    /\ \E ok \in BOOLEAN :
           /\ conn.medium = "tcp" => ok
           /\ conn' = IF ok THEN Advance([conn EXCEPT !.cleared_out = TRUE])
                      ELSE Returns(conn, Io("clear_output_buffer"))
    /\ UNCHANGED Context

\* clear_input_buffer: discard_input_buffer on serial; on TCP one read of
\* the drain loop.  The older transport.rs drops the result.
ClearInput ==
    /\ At \in {"clear_input", "clear_input_ignored"}
    /\ LET done == Advance([conn EXCEPT !.cleared_in = TRUE,
                                        !.chan_stale = FALSE])
           failed == IF At = "clear_input_ignored" THEN Advance(conn)
                     ELSE Returns(conn, Io("clear_input_buffer"))
       IN  IF conn.medium = "serial"
           THEN \E ok \in BOOLEAN : conn' = IF ok THEN done ELSE failed
           ELSE \E o \in Reads(conn.chan_stale) :
                    /\ o.kind \in {"data", "eof", "would_block", "io"}
                    /\ o.kind = "data" => o.chunk.end = "x"
                    /\ LET to == clear_input_buffer_tcp(o)
                       IN  conn' = CASE to = "continue" ->
                                            [conn EXCEPT !.polls = 1 - @]
                                     [] to = "break" -> done
                                     [] OTHER -> failed
    /\ UNCHANGED Context

\* write_all(cmd.payload.as_bytes())
WriteAll ==
    /\ At = "write_all"
    /\ \E ok \in BOOLEAN :
           conn' = IF ok
                   THEN Advance([conn EXCEPT !.wrote_clean =
                                     conn.cleared_in /\ conn.cleared_out])
                   ELSE Returns(conn, Io("write_all"))
    /\ UNCHANGED Context

\* flush()
Flush ==
    /\ At = "flush"
    /\ \E ok \in BOOLEAN :
           conn' = IF ok THEN Advance(conn) ELSE Returns(conn, Io("flush"))
    /\ UNCHANGED Context

\* read_chunks is called: the timer starts, the locals and the buffer are
\* set.
ReadEnter ==
    /\ At = "read_chunks"
    /\ ~conn.reading
    /\ conn' = [conn EXCEPT !.rd = read_chunks_enter(conn.rd),
                            !.reading = TRUE, !.expired = FALSE]
    /\ UNCHANGED Context

\* The deadline of the read loop passes.
Tick ==
    /\ At = "read_chunks"
    /\ conn.reading
    /\ conn.engine # "async"
    /\ ~conn.expired
    /\ conn' = [conn EXCEPT !.expired = TRUE]
    /\ UNCHANGED Context

\* One turn of the read loop: the condition is evaluated and, if it holds,
\* one read is issued and matched.
ReadIter ==
    /\ At = "read_chunks"
    /\ conn.reading
    /\ IF ~while_of(conn.engine, conn.rd, conn.expired)
       THEN conn' = Advance(conn)
       ELSE \E o \in Reads(conn.chan_stale) :
                /\ o.kind = "elapsed" => conn.engine = "async"
                /\ o.chunk.n = 1 => conn.shorts < MaxShort
                /\ conn.engine = "async" =>
                       conn.rd.read_buf.n + o.chunk.n
                           <= MAX_FRAME_SIZE + MaxGrowth * READ_CHUNK_SIZE
                /\ LET f == match_of(conn.engine, conn.rd, o)
                       c == [conn EXCEPT
                                !.rd = f.rd,
                                !.polls = 1 - @,
                                !.shorts = IF o.chunk.n = 1 THEN @ + 1 ELSE @,
                                !.delivered = @ + o.chunk.n,
                                !.last = o.kind,
                                !.last_n = o.chunk.n,
                                !.late = @ \/ conn.expired
                                           \/ ends_with_terminator(conn.rd.read_buf),
                                !.chan_stale = @ /\ ~f.drained]
                   IN  conn' = CASE f.to = "continue" -> c
                                 [] f.to = "break" -> Advance(c)
                                 [] OTHER -> Returns(c, f.res)
    /\ UNCHANGED Context

\* The future of transact is dropped while it awaits a read: nothing is
\* returned, the bytes read so far stay in read_buf, and the rest of the
\* reply reaches the channel, at once or later, with nobody reading it.
Cancel ==
    /\ At = "read_chunks"
    /\ conn.reading
    /\ conn.engine = "async"
    /\ \E arrived \in BOOLEAN :
           conn' = [conn EXCEPT
                       !.pc = 0, !.reading = FALSE, !.res = None,
                       !.last = "cancelled",
                       !.chan_stale = @ \/ arrived,
                       !.rd = Rd(Bytes(@.read_buf.n, @.read_buf.end,
                                       @.read_buf.stale \/ @.read_buf.n > 0),
                                 @.total_b_read)]
    /\ UNCHANGED Context

\* parse_frame, parse_response: the buffer goes to the decoder and what it
\* makes of it is returned.
Parse ==
    /\ At = "parse"
    /\ conn' = Returns(conn, Ok(conn.rd.read_buf))
    /\ UNCHANGED Context

\* The calls the handler makes once transact has been called.
Handler ==
    \/ ClearOutput
    \/ ClearInput
    \/ WriteAll
    \/ Flush
    \/ ReadEnter
    \/ ReadIter
    \/ Parse

NextRead ==
    \/ Begin
    \/ LateBytes
    \/ Tick
    \/ Cancel
    \/ Handler

SpecRead == InitRead /\ [][NextRead]_vars

\* The handler keeps running and time keeps passing; what the channel
\* gives to each read is left open.
SpecReadLive == SpecRead /\ WF_vars(Handler) /\ WF_vars(Tick)

----------------------------------------------------------------------------
(* The builder handles of the Python bindings (python_ffi.rs): one class  *)
(* for each stage of the type-state builder of base.rs, each holding the  *)
(* builder of its stage in an Option.                                      *)

\* Handles a script creates.
MaxHandles == 4

\* Calls a script makes on its handles.
MaxScriptCalls == 5

PyErr(type, msg) == [type |-> type, msg |-> msg]

\* impl From<Error> for PyErr, for the errors build can return
PyErr_from(kind) ==
    CASE kind = "Serial" -> PyErr("PyConnectionError", kind)
      [] kind = "Io" -> PyErr("PyIOError", kind)
      [] kind = "DeviceNotFound" -> PyErr("PyException", "Device not found")
      [] kind = "InvalidParams" -> PyErr("PyValueError", kind)
      [] OTHER -> PyErr("PyException", kind)

\* PyRuntimeError::new_err("Inner already consumed")
AlreadyConsumed == Err(PyErr("PyRuntimeError", "Inner already consumed"))

\* BaseControllerBuilder::<Init>::new
BaseControllerBuilder_new ==
    [conn_mode |-> "Serial", ip_addr |-> None, com_port |-> None,
     serial_num |-> None, baud_rate |-> None]

\* BaseControllerBuilder::<Init>::with_serial
BaseControllerBuilder_with_serial(b, com_port, serial_num, baud_rate) ==
    [conn_mode |-> "Serial", ip_addr |-> None, com_port |-> Some(com_port),
     serial_num |-> Some(serial_num), baud_rate |-> Some(baud_rate)]

\* BaseControllerBuilder::<Init>::with_network
BaseControllerBuilder_with_network(b, ip_addr) ==
    [conn_mode |-> "Network", ip_addr |-> Some(ip_addr), com_port |-> None,
     serial_num |-> None, baud_rate |-> None]

\* BaseControllerBuilder::<Serial>::build and ::<Network>::build as the
\* bindings see them: the transport is opened and a controller made around
\* it, or an error is returned with nothing opened.  how is "ok" or the
\* kind of the error.
BaseControllerBuilder_build(b, how) ==
    IF how = "ok"
    THEN [opened |-> 1, res |-> Ok([conn_mode |-> b.conn_mode])]
    ELSE [opened |-> 0, res |-> Err(how)]

\* A handle: the class it is an instance of and its field inner.
Handle(stage, inner) == [stage |-> stage, inner |-> inner]

\* What a method of a handle leaves: the handle, the transports it opened
\* and what it returns.
Py(self, opened, res) == [self |-> self, opened |-> opened, res |-> res]

\* PyBuilderInit::new
PyBuilderInit_new == Handle("Init", Some(BaseControllerBuilder_new))

\* PyBuilderInit::with_serial
PyBuilderInit_with_serial(self, com_port, serial_num, baud) ==
    IF self.inner = None THEN Py(self, 0, AlreadyConsumed)
    ELSE Py([self EXCEPT !.inner = None], 0,
            Ok(Handle("Serial",
                      Some(BaseControllerBuilder_with_serial(
                               self.inner[1], com_port, serial_num, baud)))))

\* PyBuilderInit::with_network
PyBuilderInit_with_network(self, ip_addr) ==
    IF self.inner = None THEN Py(self, 0, AlreadyConsumed)
    ELSE Py([self EXCEPT !.inner = None], 0,
            Ok(Handle("Network",
                      Some(BaseControllerBuilder_with_network(
                               self.inner[1], ip_addr)))))

\* build leaving the builder in the handle it was called on.
PyBaseBuilderSerial_build_keeping(self, how) ==
    IF self.inner = None THEN Py(self, 0, AlreadyConsumed)
    ELSE LET b == BaseControllerBuilder_build(self.inner[1], how)
         IN  Py(self, b.opened,
                IF b.res.ok THEN b.res ELSE Err(PyErr_from(b.res.err)))

\* PyBaseBuilderSerial::build
PyBaseBuilderSerial_build(self, how) ==
    IF self.inner = None THEN Py(self, 0, AlreadyConsumed)
    ELSE LET b == BaseControllerBuilder_build(self.inner[1], how)
         IN  Py([self EXCEPT !.inner = None], b.opened,
                IF b.res.ok THEN b.res ELSE Err(PyErr_from(b.res.err)))

\* PyBaseBuilderNetwork::build
PyBaseBuilderNetwork_build(self, how) ==
    IF self.inner = None THEN Py(self, 0, AlreadyConsumed)
    ELSE LET b == BaseControllerBuilder_build(self.inner[1], how)
         IN  Py([self EXCEPT !.inner = None], b.opened,
                IF b.res.ok THEN b.res ELSE Err(PyErr_from(b.res.err)))

\* A script: the handles it holds, for each of them the next-stage calls
\* made on it so far (used), the calls made in all, the transports opened
\* and the controllers created so far, and the last call, if nothing was
\* constructed since, with what it found and returned.
InitPy ==
    /\ op_mode = "Basedrive"
    /\ fw_vers = <<>>
    /\ modules = [i \in 1..6 |-> "Empty"]
    /\ supported_stages = <<>>
    /\ call = Idle
    /\ prev_stages = None
    /\ probe = None
    /\ decoded = None
    /\ conn = Whole
    /\ py = [handles |-> <<>>, used |-> <<>>, calls |-> 0, opened |-> 0,
             controllers |-> 0, last |-> None]

NotScript ==
    <<op_mode, fw_vers, modules, supported_stages, call, prev_stages, probe,
      decoded, conn>>

\* A call of a next-stage method on handle i has returned r.
Called(i, method, r) ==
    LET made == r.res.ok /\ method # "build"
    IN  py' = [handles |-> IF made
                           THEN Append([py.handles EXCEPT ![i] = r.self],
                                       r.res.val)
                           ELSE [py.handles EXCEPT ![i] = r.self],
               used |-> IF made
                        THEN Append([py.used EXCEPT ![i] = @ + 1], 0)
                        ELSE [py.used EXCEPT ![i] = @ + 1],
               calls |-> py.calls + 1,
               opened |-> py.opened + r.opened,
               controllers |-> py.controllers
                                 + (IF r.res.ok /\ method = "build"
                                    THEN 1 ELSE 0),
               last |-> Some([handle |-> i, method |-> method,
                              used_before |-> py.used[i],
                              opened_before |-> py.opened,
                              controllers_before |-> py.controllers,
                              handles_before |-> Len(py.handles),
                              res |-> r.res])]

\* A handle with room for the handle its method may return.
Callable(i, stage) ==
    /\ i \in 1..Len(py.handles)
    /\ py.handles[i].stage = stage
    /\ py.calls < MaxScriptCalls
    /\ Len(py.handles) < MaxHandles \/ stage # "Init" \/ py.handles[i].inner = None

\* BaseControllerBuilder() in the script
PyNew ==
    /\ Len(py.handles) + 1 < MaxHandles
    /\ py' = [py EXCEPT !.handles = Append(@, PyBuilderInit_new),
                        !.used = Append(@, 0),
                        !.last = None]
    /\ UNCHANGED NotScript

\* handle.with_serial(com_port, serial_num, baud)
PyWithSerial(F(_, _, _, _)) ==
    \E i \in 1..MaxHandles :
        /\ Callable(i, "Init")
        /\ Called(i, "with_serial", F(py.handles[i], "COM3", "", BAUD_MIN))
        /\ UNCHANGED NotScript

\* handle.with_network(ip_addr)
PyWithNetwork(F(_, _)) ==
    \E i \in 1..MaxHandles :
        /\ Callable(i, "Init")
        /\ Called(i, "with_network", F(py.handles[i], IP_OK))
        /\ UNCHANGED NotScript

\* handle.build() on a BaseWithSerial
PyBuildSerial(F(_, _)) ==
    \E i \in 1..MaxHandles, how \in {"ok", "Serial", "DeviceNotFound"} :
        /\ Callable(i, "Serial")
        /\ Called(i, "build", F(py.handles[i], how))
        /\ UNCHANGED NotScript

\* handle.build() on a BaseWithNetwork
PyBuildNetwork(F(_, _)) ==
    \E i \in 1..MaxHandles, how \in {"ok", "Io"} :
        /\ Callable(i, "Network")
        /\ Called(i, "build", F(py.handles[i], how))
        /\ UNCHANGED NotScript

NextPy ==
    \/ PyNew
    \/ PyWithSerial(PyBuilderInit_with_serial)
    \/ PyWithNetwork(PyBuilderInit_with_network)
    \/ PyBuildSerial(PyBaseBuilderSerial_build)
    \/ PyBuildNetwork(PyBaseBuilderNetwork_build)

SpecPy == InitPy /\ [][NextPy]_vars

----------------------------------------------------------------------------
(* Properties of the controller context *)

\* The dispatches handle_command made for the operation that has returned.
Dispatches ==
    IF call = Idle THEN {} ELSE {call.log[i] : i \in DOMAIN call.log}

\* The operation that has returned is one of ops.
Returned(ops) == call # Idle /\ call.op \in ops

InvalidParams(res) == ~res.ok /\ res.err.kind = "InvalidParams"

\* The mode scope of the dispatched command leaves out the mode recorded
\* when it was dispatched.
ModeExcluded(d) ==
    ~d.cmd.allowed_mode.any /\ d.op_mode \notin d.cmd.allowed_mode.only

\* The module scope of the dispatched command leaves out the module the
\* table recorded for the addressed slot when it was dispatched.
ModuleExcluded(d) ==
    /\ ~d.cmd.allowed_mod.any
    /\ d.slot # None
    /\ d.modules[d.slot[1]] \notin d.cmd.allowed_mod.only

\* C1: a command whose mode scope leaves out the recorded operating mode is
\* refused by handle_command with InvalidParams and nothing is written for
\* it, whatever the slot and the module table are.
C1_ModeGating ==
    \A d \in Dispatches :
        ModeExcluded(d) => InvalidParams(d.res) /\ d.wrote = <<>>

\* A Basedrive-only command for a slot holding an allowed module was
\* dispatched in Servodrive and refused.
C1_Witness ==
    \E d \in Dispatches :
        /\ ModeExcluded(d)
        /\ ~ModuleExcluded(d)
        /\ d.op_mode = "Servodrive"
        /\ InvalidParams(d.res)
        /\ d.wrote = <<>>

\* C2: a command restricted to a set of modules and addressed to slot k is
\* refused with InvalidParams, nothing written, when the table entry of
\* slot k holds a module outside the set, whatever refreshes came before.
C2_ModuleGating ==
    \A d \in Dispatches :
        ModuleExcluded(d) => InvalidParams(d.res) /\ d.wrote = <<>>

\* After a refresh of the table a command was dispatched in an allowed mode
\* to a slot holding a module outside its set, and refused.
C2_Witness ==
    \E d \in Dispatches :
        /\ ModuleExcluded(d)
        /\ ~ModeExcluded(d)
        /\ d.modules[d.slot[1]] # "Empty"
        /\ \E k \in Slots : d.modules[k] \in d.cmd.allowed_mod.only
        /\ InvalidParams(d.res)
        /\ d.wrote = <<>>

\* C3: the recorded mode changes only along Basedrive -> Servodrive by
\* enable_servodrive, Servodrive -> Basedrive by disable_servodrive or
\* servodrive_em_stop, Basedrive -> Flexdrive by enable_ext_input_mode and
\* Flexdrive -> Basedrive by stop_stage.
C3_SpecifiedEdges ==
    call # Idle /\ op_mode # call.before.op_mode =>
        \/ /\ call.before.op_mode = "Basedrive"
           /\ op_mode = "Servodrive"
           /\ call.op = "enable_servodrive"
        \/ /\ call.before.op_mode = "Servodrive"
           /\ op_mode = "Basedrive"
           /\ call.op \in {"disable_servodrive", "servodrive_em_stop"}
        \/ /\ call.before.op_mode = "Basedrive"
           /\ op_mode = "Flexdrive"
           /\ call.op = "enable_ext_input_mode"
        \/ /\ call.before.op_mode = "Flexdrive"
           /\ op_mode = "Basedrive"
           /\ call.op = "stop_stage"

\* C4: whenever enable_servodrive or enable_ext_input_mode returns an error
\* of any kind, the recorded mode after the call is the one before it.
C4_FailedEnableKeepsMode ==
    Returned({"enable_servodrive", "enable_ext_input_mode"}) /\ ~call.res.ok
        => op_mode = call.before.op_mode

\* C5: disable_servodrive, servodrive_em_stop and stop_stage make one
\* dispatch expecting one value; they record Basedrive exactly when it
\* succeeds and leave the recorded mode as it was when it does not.
C5_BasedriveOnSuccess ==
    Returned({"disable_servodrive", "servodrive_em_stop", "stop_stage"}) =>
        /\ Len(call.log) = 1
        /\ call.log[1].n_resp_vals = Some(1)
        /\ call.res.ok <=> call.log[1].res.ok
        /\ IF call.res.ok
           THEN op_mode = "Basedrive"
           ELSE op_mode = call.before.op_mode

\* One of the three succeeded in Servodrive or Flexdrive.
C5_Witness ==
    /\ Returned({"disable_servodrive", "servodrive_em_stop", "stop_stage"})
    /\ call.before.op_mode # "Basedrive"
    /\ call.res.ok
    /\ op_mode = "Basedrive"

\* C6: enable_scan_mode called in Servodrive or Flexdrive (with a level in
\* range) returns InvalidParams, writes nothing and leaves the recorded
\* mode as it was.
C6_ScanModeRefused ==
    /\ Returned({"enable_scan_mode"})
    /\ call.before.op_mode \in {"Servodrive", "Flexdrive"}
    /\ call.args.level \in SCANNER_LEVEL_BOUNDS
    => /\ InvalidParams(call.res)
       /\ call.wrote = <<>>
       /\ op_mode = call.before.op_mode

\* C7: the cached version is empty until a get_fw_version succeeds; once a
\* get_fw_version has returned a non-empty v, every later get_fw_version
\* returns v without a transaction, and no other operation changes the
\* cached value.
C7_FwVersionCache ==
    call # Idle =>
        IF call.op # "get_fw_version"
        THEN fw_vers = call.before.fw_vers
        ELSE IF call.before.fw_vers # <<>>
        THEN /\ call.res = Ok(call.before.fw_vers)
             /\ call.log = <<>>
             /\ call.wrote = <<>>
             /\ fw_vers = call.before.fw_vers
        ELSE IF call.res.ok
        THEN fw_vers = call.res.val
        ELSE fw_vers = <<>>

\* get_fw_version was answered from the cache.
C7_Witness ==
    /\ Returned({"get_fw_version"})
    /\ call.before.fw_vers # <<>>
    /\ call.res = Ok(call.before.fw_vers)
    /\ call.wrote = <<>>

\* C8: of two get_supported_stages calls in a row the second makes no
\* transaction and returns the list of the first.
C8_SecondCallFromCache ==
    Returned({"get_supported_stages"}) /\ prev_stages # None =>
        /\ call.wrote = <<>>
        /\ call.res = Ok(prev_stages[1])

\* C8 as the code has it: every get_supported_stages call makes its own
\* /STAGES dispatch and returns the result of that dispatch, and it neither
\* reads nor changes the cached list; two calls in a row make two
\* transactions.
C8_EveryCallAsksDevice ==
    Returned({"get_supported_stages"}) =>
        /\ Len(call.log) = 1
        /\ call.log[1].cmd = STAGES_cmd
        /\ call.res = call.log[1].res
        /\ call.res.ok => call.wrote = <<STAGES_cmd.payload>>
        /\ supported_stages = call.before.supported_stages

\* A second get_supported_stages in a row, with the cache filled, made a
\* transaction of its own and returned a list that is neither the first
\* call's nor the cached one.
C8_Witness ==
    /\ Returned({"get_supported_stages"})
    /\ prev_stages # None
    /\ call.before.supported_stages # <<>>
    /\ call.wrote = <<STAGES_cmd.payload>>
    /\ call.res.ok
    /\ call.res.val # prev_stages[1]
    /\ call.res.val # call.before.supported_stages

\* The operations that validate a stage name.
StageOps ==
    {"move_stage_open", "enable_ext_input_mode", "enable_servodrive",
     "get_current_position", "get_current_position_all",
     "read_neg_end_stop", "read_pos_end_stop"}

\* The catalog queries among the dispatches of the returned operation.
CatalogQueries == {d \in Dispatches : d.cmd = STAGES_cmd}

\* C9: stage validation queries the catalog only while the cache is empty;
\* a filled cache is never replaced and never queried for again, a
\* successful query fills the cache with its list, and a failed query
\* leaves the cache empty.
C9_PopulateOnce ==
    call # Idle =>
        /\ call.op # "get_supported_stages" /\ CatalogQueries # {} =>
               call.op \in StageOps /\ call.before.supported_stages = <<>>
        /\ IF call.before.supported_stages # <<>>
           THEN supported_stages = call.before.supported_stages
           ELSE IF call.op \in StageOps /\ CatalogQueries # {}
           THEN /\ call.log[1].cmd = STAGES_cmd
                /\ \A i \in 2..Len(call.log) : call.log[i].cmd # STAGES_cmd
                /\ IF call.log[1].res.ok
                   THEN supported_stages = call.log[1].res.val
                   ELSE supported_stages = <<>> /\ call.res = call.log[1].res
           ELSE supported_stages = <<>>

\* A stage name was validated against a filled cache without a catalog
\* query, and the operation went on to its own dispatch.
C9_Witness ==
    /\ Returned(StageOps)
    /\ call.before.supported_stages # <<>>
    /\ CatalogQueries = {}
    /\ call.log # <<>>
    /\ supported_stages = call.before.supported_stages

\* The stage names the returned operation was given.
StageArgs ==
    IF call.op \in {"enable_servodrive", "get_current_position_all"}
    THEN {call.args.stages[i] : i \in 1..3}
    ELSE {call.args.stage}

\* The numeric arguments of the returned operation are within their bounds.
ArgsInBounds ==
    CASE call.op = "move_stage_open" ->
             /\ call.args.step_freq \in STEP_FREQ_BOUNDS
             /\ call.args.r_step_size \in RELATIVE_ACTUATOR_STEP_SIZE_BOUND
             /\ call.args.n_steps \in NUM_STEPS_BOUNDS
             /\ call.args.temp \in TEMP_BOUNDS
             /\ call.args.drive_factor \in DRIVE_FACTOR_BOUNDS
      [] call.op = "enable_ext_input_mode" ->
             /\ call.args.step_freq \in STEP_FREQ_BOUNDS
             /\ call.args.r_step_size \in RELATIVE_ACTUATOR_STEP_SIZE_BOUND
             /\ call.args.temp \in TEMP_BOUNDS
             /\ call.args.drive_factor \in DRIVE_FACTOR_BOUNDS
      [] call.op = "enable_servodrive" ->
             /\ call.args.drive_factor \in DRIVE_FACTOR_BOUNDS
             /\ call.args.f1 \in STEP_FREQ_BOUNDS
             /\ call.args.f2 \in STEP_FREQ_BOUNDS
             /\ call.args.f3 \in STEP_FREQ_BOUNDS
             /\ call.args.temp \in TEMP_BOUNDS
      [] call.op = "enable_scan_mode" ->
             call.args.level \in SCANNER_LEVEL_BOUNDS
      [] call.op = "set_excitation_ds" ->
             call.args.duty = 0 \/ call.args.duty \in 10..100
      [] call.op = "set_baud_rate" ->
             call.args.baud \in BAUD_BOUNDS
      [] OTHER -> TRUE

\* A stage operation has returned and one of its stage names is not in the
\* supported-stage list the context holds.
UnknownStage ==
    /\ Returned(StageOps)
    /\ \E st \in StageArgs :
           \A i \in 1..Len(supported_stages) : supported_stages[i] # st

\* C10: a stage operation given a name that is not in the supported-stage
\* list returns DeviceError, its own command is never written and the
\* recorded mode is unchanged.
C10_UnknownStageDeviceError ==
    UnknownStage =>
        /\ ~call.res.ok
        /\ call.res.err.kind = "DeviceError"
        /\ \A i \in 1..Len(call.wrote) : call.wrote[i] = STAGES_cmd.payload
        /\ op_mode = call.before.op_mode

\* C10 as the code has it: the own command is never written and the mode is
\* unchanged; the error is Bound when a numeric argument is out of range,
\* else the error of the catalog query when that query failed and left the
\* list empty, else DeviceError.
C10_UnknownStageRefused ==
    UnknownStage =>
        /\ \A d \in Dispatches : d.cmd = STAGES_cmd
        /\ \A i \in 1..Len(call.wrote) : call.wrote[i] = STAGES_cmd.payload
        /\ op_mode = call.before.op_mode
        /\ ~call.res.ok
        /\ IF ~ArgsInBounds
           THEN call.res.err.kind = "Bound" /\ call.log = <<>>
           ELSE IF supported_stages = <<>>
           THEN Len(call.log) = 1 /\ call.res = call.log[1].res
           ELSE call.res.err.kind = "DeviceError"

\* A mode-entering or moving stage operation with its numbers in range and
\* a filled list was given an unlisted name and refused with DeviceError,
\* nothing written.
C10_Witness ==
    /\ UnknownStage
    /\ ArgsInBounds
    /\ call.before.supported_stages # <<>>
    /\ call.res.err.kind = "DeviceError"
    /\ call.wrote = <<>>
    /\ call.op \in {"enable_servodrive", "enable_ext_input_mode",
                    "move_stage_open"}

\* The operations that check numeric arguments against a range.
BoundedOps ==
    {"move_stage_open", "enable_ext_input_mode", "enable_servodrive",
     "enable_scan_mode", "set_excitation_ds", "set_baud_rate"}

\* The operation that has returned left every field of the context as it
\* found it.
ContextUnchanged ==
    /\ op_mode = call.before.op_mode
    /\ fw_vers = call.before.fw_vers
    /\ modules = call.before.modules
    /\ supported_stages = call.before.supported_stages

\* C11: a range-checked operation given a numeric argument outside its
\* range returns Bound, makes no dispatch and writes nothing (no catalog
\* query either), and leaves the mode, the module table and the caches
\* as they were.
C11_BoundBeforeTraffic ==
    Returned(BoundedOps) /\ ~ArgsInBounds =>
        /\ ~call.res.ok
        /\ call.res.err.kind = "Bound"
        /\ call.log = <<>>
        /\ call.wrote = <<>>
        /\ ContextUnchanged

\* Outside Basedrive and with the stage cache still empty, an operation that
\* would otherwise have queried the catalog or changed the mode was given
\* a number out of range and refused.
C11_Witness ==
    /\ Returned({"move_stage_open", "enable_ext_input_mode",
                 "enable_servodrive", "enable_scan_mode"})
    /\ ~ArgsInBounds
    /\ call.before.op_mode # "Basedrive"
    /\ call.res.err.kind = "Bound"
    /\ call.wrote = <<>>

\* C13: get_module_list either returns Ok with the six values of its one
\* response and has overwritten entry i of the module table with the module
\* named by value i, for all six entries, or returns an error and has left
\* the six entries exactly as they were.
C13_AtomicModuleRefresh ==
    Returned({"get_module_list"}) =>
        IF call.res.ok
        THEN /\ Len(call.log) = 1
             /\ call.log[1].chan # None
             /\ parse_frame(call.log[1].chan[1].reply).val.v = call.res.val
             /\ Len(call.res.val) = 6
             /\ \A i \in 1..6 :
                    /\ Module_from_str(call.res.val[i]).ok
                    /\ modules[i] = Module_from_str(call.res.val[i]).val
        ELSE modules = call.before.modules

\* A refresh whose response had six values, the first a known module other
\* than the one recorded, and a later one unknown: it failed and the table
\* kept its entries.
C13_Witness ==
    /\ Returned({"get_module_list"})
    /\ ~call.res.ok
    /\ call.log[1].res.ok
    /\ Module_from_str(call.log[1].res.val[1]).ok
    /\ Module_from_str(call.log[1].res.val[1]).val # call.before.modules[1]
    /\ modules = call.before.modules

\* The six values of a module list whose fifth slot holds no module.
MODLIST_ABSENT ==
    << <<"C", "A", "D", "M", "2">>, <<"C", "A", "D", "M", "2">>,
       <<"R", "S", "M">>, <<"O", "E", "M", "2">>, <<"-">>,
       <<"E", "D", "M">> >>

\* C14: when the device answers /MODLIST with CADM2, CADM2, RSM, OEM2, -,
\* EDM, get_module_list returns Ok with those six strings and the module
\* table becomes Cadm, Cadm, Rsm, Oem, Empty, Edm: the value "-" is the
\* no-module kind and does not make the refresh fail.
C14_AbsentModuleParsed ==
    /\ Returned({"get_module_list"})
    /\ Len(call.log) = 1
    /\ call.log[1].chan # None
    /\ parse_frame(call.log[1].chan[1].reply).ok
    /\ parse_frame(call.log[1].chan[1].reply).val.v = MODLIST_ABSENT
    => /\ call.res = Ok(MODLIST_ABSENT)
       /\ modules = <<"Cadm", "Cadm", "Rsm", "Oem", "Empty", "Edm">>

\* The dispatch made a transaction whose read loop stopped without an I/O
\* error and without overflow, holding bytes that do not end with the
\* terminator.
Unterminated(d) ==
    /\ d.chan # None
    /\ d.chan[1].fail = "none"
    /\ strip_suffix(d.chan[1].reply, TERMINATOR) = None

DeviceReportedError(d) ==
    /\ d.chan # None
    /\ d.chan[1].fail = "none"
    /\ from_utf8(d.chan[1].reply).ok
    /\ strip_suffix(d.chan[1].reply, TERMINATOR) # None
    /\ starts_with(d.chan[1].reply, <<"E", "r", "r", "o", "r">>)

\* The operations that set the mode after their dispatch has succeeded.
PostSuccessModeOps == {"stop_stage", "disable_servodrive", "servodrive_em_stop"}

\* C19: a dispatch whose transaction yields an Error frame returns
\* DeviceError carrying the text of the device without the terminator,
\* whatever the command and the expected value count; it is the last
\* dispatch of its operation, which returns that error, leaves the module
\* table and the firmware-version cache as they were, leaves the stage cache
\* as it was or as an earlier catalog query of the same operation filled it,
\* and, where the mode is set after success, leaves the mode as it was.
C19_DeviceErrorVerbatim ==
    call # Idle =>
        \A i \in DOMAIN call.log :
            DeviceReportedError(call.log[i]) =>
                /\ call.log[i].res =
                       Err(Error("DeviceError",
                           strip_suffix(call.log[i].chan[1].reply,
                                        TERMINATOR)[1]))
                /\ i = Len(call.log)
                /\ call.res = call.log[i].res
                /\ modules = call.before.modules
                /\ fw_vers = call.before.fw_vers
                /\ \/ supported_stages = call.before.supported_stages
                   \/ \E j \in 1..(i - 1) :
                          /\ call.log[j].cmd = STAGES_cmd
                          /\ call.log[j].res = Ok(supported_stages)
                /\ call.op \in PostSuccessModeOps =>
                       op_mode = call.before.op_mode

\* Outside Basedrive, an operation that records Basedrive on success and
\* expects one value was answered by an Error frame: it returned DeviceError
\* and the mode stayed.
C19_Witness ==
    /\ Returned(PostSuccessModeOps)
    /\ call.before.op_mode # "Basedrive"
    /\ Len(call.log) = 1
    /\ DeviceReportedError(call.log[1])
    /\ call.log[1].n_resp_vals = Some(1)
    /\ call.res.err.kind = "DeviceError"
    /\ op_mode = call.before.op_mode

\* The transaction of the dispatch yielded a delimited frame.
DelimitedFrame(d) ==
    /\ d.chan # None
    /\ d.chan[1].fail = "none"
    /\ parse_frame(d.chan[1].reply).ok
    /\ parse_frame(d.chan[1].reply).val.kind # "Error"

\* The values of the delimited frame the dispatch was given.
FrameValues(d) == parse_frame(d.chan[1].reply).val.v

\* C20: a dispatch given an expected value count n returns Ok(v) only if the
\* delimited frame has exactly n values, and otherwise InvalidResponse citing
\* n and the number of values received; given no expected count it returns
\* the values of the frame, however many, unchanged.
C20_LengthCheck ==
    \A d \in Dispatches :
        DelimitedFrame(d) =>
            IF d.n_resp_vals = None \/ d.n_resp_vals = Some(Len(FrameValues(d)))
            THEN d.res = Ok(FrameValues(d))
            ELSE d.res = Err(Error("InvalidResponse",
                                   <<"Expected", d.n_resp_vals[1],
                                     "values, got", Len(FrameValues(d))>>))

\* A dispatch expecting six values was given a frame of two and refused it,
\* and the operation returned the refusal.
C20_Witness ==
    /\ Returned({"get_module_list"})
    /\ Len(call.log) = 1
    /\ DelimitedFrame(call.log[1])
    /\ call.log[1].n_resp_vals = Some(6)
    /\ Len(FrameValues(call.log[1])) = 2
    /\ call.res = Err(Error("InvalidResponse",
                            <<"Expected", 6, "values, got", 2>>))

\* The function op has been applied to the probe.
Applied(op) == decoded # None /\ decoded[1].op = op

\* The duty cycles set_excitation_ds lets through.
LegalDuty == {0} \cup 10..100

\* C12: for every duty cycle d of 0..255, set_excitation_ds returns Bound
\* exactly when d is neither 0 nor within 10..100, and then without a
\* dispatch or a byte written; every other d is validated and, for a slot
\* holding an RSM in Basedrive, goes out as "EXS <slot> <d>".
C12_DutyDisjointRange ==
    Applied("set_excitation_ds") =>
        LET d == probe[1].duty
            o == decoded[1].out
        IN  IF d \in LegalDuty
            THEN /\ ~(~o.res.ok /\ o.res.err.kind = "Bound")
                 /\ Len(o.log) = 1
                 /\ modules[probe[1].slot] = "Rsm" =>
                        \/ o.wrote = <<join_sp(<< <<"E", "X", "S">>,
                                                  fmt_uint(probe[1].slot),
                                                  fmt_uint(d) >>)
                                           \o TERMINATOR>>
                        \/ o.log[1].chan[1].fail
                               \in {"clear_output_buffer", "clear_input_buffer"}
            ELSE /\ ~o.res.ok
                 /\ o.res.err.kind = "Bound"
                 /\ o.log = <<>>
                 /\ o.wrote = <<>>

\* A duty cycle between the two legal ranges was refused for an RSM slot
\* without a dispatch.
C12_Witness ==
    /\ Applied("set_excitation_ds")
    /\ probe[1].duty \in 1..9
    /\ modules[probe[1].slot] = "Rsm"
    /\ decoded[1].out.res.err.kind = "Bound"
    /\ decoded[1].out.wrote = <<>>

\* The value list, coming in either encoding, begins with a value that
\* begins with "Error".
ErrorFirst == starts_with(probe[1].values[1], ERROR_PREFIX)

\* C15 as stated: for every list of two or more values, the response in the
\* comma form and the response in the carriage-return form yield the same
\* value list to the caller of dispatch and, for get_module_list, one
\* outcome and one module table.
C15_BothEncodingsOneOutcome ==
    /\ Applied("dispatch") =>
           /\ decoded[1].out.comma.res = Ok(probe[1].values)
           /\ decoded[1].out.cr.res = Ok(probe[1].values)
    /\ Applied("get_module_list") =>
           decoded[1].out.comma = decoded[1].out.cr

\* C15, amended: for every list of two or more values whose first value does
\* not begin with "Error", both responses yield that list to the caller of
\* dispatch, and get_module_list ends with one result and one module table,
\* the table overwritten from the six names when all are known; a list whose
\* first value begins with "Error" yields DeviceError in both forms, each
\* carrying its own response text, and leaves the table alone.
C15_BothEncodingsUnlessError ==
    /\ Applied("dispatch") /\ ~ErrorFirst =>
           /\ decoded[1].out.comma.res = Ok(probe[1].values)
           /\ decoded[1].out.cr.res = Ok(probe[1].values)
    /\ Applied("get_module_list") /\ ~ErrorFirst =>
           /\ decoded[1].out.comma = decoded[1].out.cr
           /\ decoded[1].out.cr.res.ok =>
                  /\ decoded[1].out.cr.res.val = probe[1].values
                  /\ \A i \in 1..NumSlots :
                         Module_from_str(probe[1].values[i]) =
                             Ok(decoded[1].out.cr.modules[i])
    /\ (Applied("dispatch") \/ Applied("get_module_list")) /\ ErrorFirst =>
           /\ decoded[1].out.comma =
                  [res |-> Err(Error("DeviceError",
                                     join_with(probe[1].values, COMMA))),
                   modules |-> modules]
           /\ decoded[1].out.cr =
                  [res |-> Err(Error("DeviceError",
                                     join_with(probe[1].values, CR))),
                   modules |-> modules]

\* Six known module names, other than the ones recorded, came in both forms
\* and both refreshes returned them and wrote the same table.
C15_Witness ==
    /\ Applied("get_module_list")
    /\ decoded[1].out.cr.res = Ok(probe[1].values)
    /\ decoded[1].out.comma.res = Ok(probe[1].values)
    /\ decoded[1].out.cr.modules = decoded[1].out.comma.modules
    /\ \A i \in 1..NumSlots : decoded[1].out.cr.modules[i] # modules[i]

\* The examined response is UTF-8 text that ends with the terminator.
TerminatedText ==
    /\ probe[1].kind = "bytes"
    /\ from_utf8(probe[1].bytes).ok
    /\ ends_with(probe[1].bytes, TERMINATOR)

\* The text of the examined response without its terminator.
Body == SubSeq(probe[1].bytes, 1, Len(probe[1].bytes) - Len(TERMINATOR))

\* C16: both decoders turn every terminator-ended response whose text
\* begins with "Error" into Frame::Error carrying the text without the
\* terminator, whatever commas or carriage returns it holds.
C16_ErrorPrecedence ==
    (Applied("parse_frame") \/ Applied("parse_response"))
        /\ TerminatedText /\ starts_with(probe[1].bytes, ERROR_PREFIX)
    => decoded[1].out = Ok(Frame("Error", Body))

\* A response beginning with "Error" and holding both a comma and an
\* interior carriage return was decoded as an Error frame.
C16_Witness ==
    /\ Applied("parse_frame")
    /\ TerminatedText
    /\ starts_with(probe[1].bytes, ERROR_PREFIX)
    /\ count_char(Body, COMMA) > 0
    /\ count_char(Body, CR) > 0
    /\ decoded[1].out.val.kind = "Error"

\* The list v is the text cut at every occurrence of the delimiter d.
IsSplit(v, text, d) ==
    /\ Len(v) >= 1
    /\ join_with(v, d) = text
    /\ \A i \in 1..Len(v) : count_char(v[i], d) = 0

\* C17: both decoders turn a terminator-ended response that does not begin
\* with "Error" into CommaDelimited with the text cut at its commas when
\* the text holds no interior carriage return (one value when it holds no
\* comma either), and into CrDelimited with the text cut at its carriage
\* returns when it holds one or more.
C17_DelimiterChoice ==
    (Applied("parse_frame") \/ Applied("parse_response"))
        /\ TerminatedText /\ ~starts_with(probe[1].bytes, ERROR_PREFIX)
    => /\ decoded[1].out.ok
       /\ IF count_char(Body, CR) = 0
          THEN /\ decoded[1].out.val.kind = "CommaDelimited"
               /\ IsSplit(decoded[1].out.val.v, Body, COMMA)
          ELSE /\ decoded[1].out.val.kind = "CrDelimited"
               /\ IsSplit(decoded[1].out.val.v, Body, CR)

\* The decoder of base.rs was given a response with one interior carriage
\* return and a comma, and cut it at the carriage return into two values.
C17_Witness ==
    /\ Applied("parse_response")
    /\ TerminatedText
    /\ ~starts_with(probe[1].bytes, ERROR_PREFIX)
    /\ count_char(Body, CR) = 1
    /\ count_char(Body, COMMA) = 1
    /\ decoded[1].out.val.kind = "CrDelimited"
    /\ Len(decoded[1].out.val.v) = 2

\* The payloads written by the dispatches of the log, in order.
RECURSIVE WrittenBy(_)
WrittenBy(log) ==
    IF log = <<>> THEN <<>> ELSE Head(log).wrote \o WrittenBy(Tail(log))

\* C24: a dispatch performs at most one transaction and writes at most
\* once; what it writes is the text of its command followed by one
\* terminator; when the exchange ends in an error the error is its result
\* and the payload has not been written again; an operation writes nothing
\* but what its dispatches write.
C24_NoRetryExactBytes ==
    call # Idle =>
        /\ \A i \in DOMAIN call.log :
               LET d == call.log[i]
                   text == strip_suffix(d.cmd.payload, TERMINATOR)
               IN  /\ Len(d.wrote) <= 1
                   /\ d.chan = None => d.wrote = <<>>
                   /\ text # None
                   /\ ~ends_with(text[1], TERMINATOR)
                   /\ d.wrote # <<>> => d.wrote = <<text[1] \o TERMINATOR>>
                   /\ ~d.res.ok => i = Len(call.log) /\ call.res = d.res
        /\ call.wrote = WrittenBy(call.log)

\* An exchange that ran out of time before a terminator arrived was handed
\* to the caller as an error after one write of the payload.
C24_Witness ==
    /\ Returned({"get_fw_version"})
    /\ Len(call.log) = 1
    /\ Unterminated(call.log[1])
    /\ ~call.res.ok
    /\ call.wrote = <<call.log[1].cmd.payload>>

\* C26: no public operation panics on anything the device sends: no call and
\* no dispatch ends in a panic, no command restricted to modules is checked
\* without a slot unless the check passes, and every value list a caller
\* indexes has the length the caller asked the length check for, which
\* covers the positions it reads (1 for remove(0) and v[0], 3 for the
\* positions, 8 for the status).
Panicked(res) == ~res.ok /\ res.err.kind = "panic"

IndexedLen(op) ==
    CASE op = "get_current_position_all" -> 3
      [] op = "get_servodrive_status" -> 8
      [] op \in {"start_mod_fw_update", "get_module_list", "get_supported_stages", "get_ip_config"} -> 0
      [] OTHER -> 1

C26_NoPanic ==
    call # Idle =>
        /\ ~Panicked(call.res)
        /\ \A i \in DOMAIN call.log :
               LET d == call.log[i]
               IN  /\ ~Panicked(d.res)
                   /\ d.res.ok /\ d.n_resp_vals # None =>
                          Len(d.res.val) = d.n_resp_vals[1]
                   /\ IndexedLen(call.op) > 0 /\ d.cmd # STAGES_cmd =>
                          /\ d.n_resp_vals # None
                          /\ d.n_resp_vals[1] >= IndexedLen(call.op)

\* A status of the wrong number of values reached get_servodrive_status,
\* which returned InvalidResponse.
C26_Witness ==
    /\ Returned({"get_servodrive_status"})
    /\ Len(call.log) = 1
    /\ call.log[1].chan # None
    /\ DelimitedFrame(call.log[1])
    /\ Len(FrameValues(call.log[1])) # 8
    /\ ~call.res.ok
    /\ call.res.err.kind = "InvalidResponse"

\* C25: build makes exactly one dispatch, the module-list query, and returns
\* Ok whatever that query and the parsing of its names gave; if the refresh
\* failed the table is all Empty; while the table is all Empty every command
\* restricted to modules and addressed to a slot is rejected with
\* InvalidParams with nothing written and no channel used; and an all-Empty
\* table changes only by a build or a get_module_list whose query succeeded.
AllEmpty(t) == \A i \in 1..6 : t[i] = "Empty"

MODLIST_payload == <<"/", "M", "O", "D", "L", "I", "S", "T">> \o TERMINATOR

RefreshFailed(d) ==
    \/ ~d.res.ok
    \/ \E i \in DOMAIN d.res.val : ~Module_from_str(d.res.val[i]).ok

C25_BestEffortBuild ==
    call.op \notin {"idle", "unbuilt"} =>
        /\ call.op = "build" =>
               /\ call.res.ok
               /\ Len(call.log) = 1
               /\ call.log[1].cmd.payload = MODLIST_payload
               /\ RefreshFailed(call.log[1]) => AllEmpty(modules)
        /\ \A i \in DOMAIN call.log :
               LET d == call.log[i]
               IN  ~d.cmd.allowed_mod.any /\ d.slot # None /\ AllEmpty(d.modules)
                       => /\ InvalidParams(d.res)
                          /\ d.chan = None
                          /\ d.wrote = <<>>
        /\ AllEmpty(call.before.modules) /\ ~AllEmpty(modules) =>
               /\ call.op \in {"build", "get_module_list"}
               /\ ~RefreshFailed(call.log[1])

\* build returned Ok although its refresh got no reply, and left the table
\* all Empty.
C25_Witness ==
    /\ call.op = "build"
    /\ call.res.ok
    /\ call.log[1].chan # None
    /\ ~call.log[1].res.ok
    /\ AllEmpty(modules)

\* A command restricted to modules was rejected on the all-Empty table the
\* failed refresh left.
C25_Rejected ==
    /\ call.op \notin {"idle", "unbuilt", "build"}
    /\ AllEmpty(call.before.modules)
    /\ \E i \in DOMAIN call.log :
           /\ ~call.log[i].cmd.allowed_mod.any
           /\ call.log[i].slot # None
           /\ InvalidParams(call.log[i].res)

----------------------------------------------------------------------------
(* Properties of the transaction engines *)

\* The transaction that has returned gave the decoder's frame.
Framed == conn.res # None /\ conn.res[1].ok

\* The transaction that has returned failed with an error of this kind.
Failed(kind) ==
    conn.res # None /\ ~conn.res[1].ok /\ conn.res[1].err.kind = kind

\* C21: in the read loops of transport/connection.rs and base.rs the buffer
\* never holds more than 4096 bytes; a transaction whose reads delivered
\* more than 4096 bytes has failed, and only such a transaction fails, with
\* BufOverflow of max_len 4096 and idx the number of bytes delivered, the
\* offending chunk included; 4096 bytes that end in the terminator are
\* taken as read, never as an overflow; and in every read loop, also the
\* one after an overflow, the buffer holds exactly what this transaction's
\* reads delivered, nothing of the transaction before.
C21_OverflowGuard ==
    conn.engine \in {"connection", "base"} =>
        /\ conn.rd.read_buf.n <= MAX_FRAME_SIZE
        /\ conn.delivered > MAX_FRAME_SIZE <=> Failed("BufOverflow")
        /\ Failed("BufOverflow") =>
               conn.res[1].err.msg = <<4096, conn.delivered>>
        /\ conn.reading => conn.rd.read_buf.n = conn.delivered
        /\ /\ conn.res # None
           /\ conn.last = "data"
           /\ conn.delivered = 4096
           /\ ends_with_terminator(conn.rd.read_buf)
           => \/ conn.res = Some(Ok(Bytes(4096, "crlf", conn.rd.read_buf.stale)))
              \/ conn.engine = "base" /\ Failed("Io")

\* After a transaction that overflowed, the next one read exactly 4096
\* bytes ending in the terminator and returned them as its frame.
C21_Witness ==
    /\ conn.engine \in {"connection", "base"}
    /\ conn.prev = "BufOverflow"
    /\ Framed
    /\ conn.delivered = 4096
    /\ conn.res[1].val.n = 4096
    /\ ends_with_terminator(conn.res[1].val)

\* An overflow on the byte after the 4096th.
C21_Overflow ==
    /\ conn.engine \in {"connection", "base"}
    /\ conn.res = Some(BufOverflow(4096, 4097))

\* C22: in transport/connection.rs, from the write on, both buffers of the
\* channel have been discarded in this transaction and no byte from before
\* it waits in the channel; every read loop holds exactly the bytes this
\* transaction's reads delivered; so neither the buffer nor the frame
\* returned ever contains a byte that was in the channel before the
\* transaction, whatever the transactions before it left behind.
C22_NoLeakage ==
    conn.engine = "connection" =>
        /\ At \in {"flush", "read_chunks", "parse"} =>
               /\ conn.wrote_clean
               /\ conn.cleared_in /\ conn.cleared_out
               /\ ~conn.chan_stale
        /\ conn.reading => conn.rd.read_buf.n = conn.delivered
        /\ ~conn.rd.read_buf.stale
        /\ Framed => conn.wrote_clean /\ ~conn.res[1].val.stale

\* A transaction that began with unread bytes in the channel, after one
\* that failed with an I/O error, returned a frame of fresh bytes only.
C22_Witness ==
    /\ conn.engine = "connection"
    /\ conn.prev = "Io"
    /\ conn.began_stale
    /\ Framed
    /\ conn.res[1].val.n > 0
    /\ ~conn.res[1].val.stale

\* The same after a transaction that overflowed.
C22_AfterOverflow ==
    /\ conn.engine = "connection"
    /\ conn.prev = "BufOverflow"
    /\ conn.began_stale
    /\ Framed
    /\ conn.res[1].val.n > 0

\* This step issued a read in the read loop of the given engine.
ReadIssued(engine) ==
    /\ conn.engine = engine
    /\ conn.reading
    /\ conn'.polls # conn.polls

\* C29: in the read loop of transport/connection.rs a read that fails with
\* would-block or timed-out changes neither the buffer nor the byte count
\* nor the deadline, returns nothing and leaves the loop running; a read
\* that fails with another I/O error returns Err(Io) at once, so nothing is
\* decoded; a read of 0 bytes leaves the loop with the buffer as it was and
\* the handler at parse_frame, which is given that buffer; and an Io error
\* from the read loop is only ever returned after a read that failed so.
C29_PollArtifacts ==
    [][/\ ReadIssued("connection") =>
              /\ conn'.last \in {"would_block", "timed_out"} =>
                     /\ conn'.rd = conn.rd
                     /\ conn'.res = None
                     /\ conn'.reading
                     /\ conn'.pc = conn.pc
                     /\ conn'.expired = conn.expired
              /\ conn'.last = "io" =>
                     /\ conn'.res = Some(Io("read"))
                     /\ conn'.pc = 0
              /\ conn'.last = "eof" =>
                     /\ conn'.rd = conn.rd
                     /\ conn'.res = None
                     /\ ~conn'.reading
                     /\ steps(conn.engine, conn.medium)[conn'.pc] = "parse"
       /\ conn.engine = "connection" /\ At = "parse" /\ conn' # conn =>
              conn'.res = Some(Ok(conn.rd.read_buf))
       /\ conn.engine = "connection" /\ conn'.res = Some(Io("read")) =>
              conn'.last = "io"
      ]_vars

\* The read loop of transport/connection.rs is polling again after a read
\* that timed out, with the bytes read before it still in the buffer.
C29_Witness ==
    /\ conn.engine = "connection"
    /\ conn.reading
    /\ conn.last = "timed_out"
    /\ conn.rd.read_buf.n > 0
    /\ conn.res = None

\* A frame was decoded from the bytes read before the end of the stream.
C29_EofDecoded ==
    /\ conn.engine = "connection"
    /\ conn.last = "eof"
    /\ Framed
    /\ conn.res[1].val.n > 0
    /\ ~ends_with_terminator(conn.res[1].val)

\* C30: the read loop of transport.rs issues no read once the deadline has
\* passed or the buffer ends in the terminator.
C30_NoReadAfterExit == conn.engine = "transport" => ~conn.late

\* C27: in the asynchronous engine the read buffer never holds more than
\* 4096 bytes, and a transaction whose reads delivered more than 4096 bytes
\* has failed with BufOverflow.
C27_AsyncOverflowGuard ==
    conn.engine = "async" =>
        /\ conn.rd.read_buf.n <= MAX_FRAME_SIZE
        /\ conn.delivered > MAX_FRAME_SIZE => Failed("BufOverflow")

\* C28: every asynchronous transaction that has begun returns.
C28_AsyncTerminates ==
    (conn.engine = "async" /\ conn.pc # 0) ~> (conn.pc = 0)

\* C23: every transaction of transport/connection.rs that has begun
\* returns.
C23_Terminates ==
    (conn.engine = "connection" /\ conn.pc # 0) ~> (conn.pc = 0)

\* The read loop of transport/connection.rs, once entered, is left, and it
\* issues no read once the deadline has passed.
ReadPhaseEnds ==
    (conn.engine = "connection" /\ conn.reading) ~> ~conn.reading

NoReadAfterDeadline == conn.engine = "connection" => ~conn.late

----------------------------------------------------------------------------
(* Properties of the commands and of the validation *)

\* C40: whenever the end-stop setters of a controller (BaseContext and
\* BaseController) write, set_neg_end_stop writes "MIS <slot> <ch>\r\n",
\* set_pos_end_stop writes "MAS <slot> <ch>\r\n", and the two payloads
\* differ.
EndStopPayload(mnemonic) ==
    << join_sp(<< mnemonic, Slot_fmt(probe[1].slot),
                  ModuleChannel_fmt(probe[1].ch) >>) \o TERMINATOR >>

C40_DistinctEndStops ==
    /\ decoded # None
    /\ decoded[1].op \in {"end_stops", "base_rs_end_stops"}
    => LET out == decoded[1].out
       IN  /\ out.neg \in {<<>>, EndStopPayload(<<"M", "I", "S">>)}
           /\ out.pos \in {<<>>, EndStopPayload(<<"M", "A", "S">>)}
           /\ out.neg # <<>> => out.neg # out.pos

\* The same for BaseContext alone.
EndStopsOfContext ==
    /\ decoded # None
    /\ decoded[1].op = "end_stops"
    => LET out == decoded[1].out
       IN  /\ out.neg \in {<<>>, EndStopPayload(<<"M", "I", "S">>)}
           /\ out.pos \in {<<>>, EndStopPayload(<<"M", "A", "S">>)}
           /\ out.neg # <<>> => out.neg # out.pos

\* C38: check_command tests the mode scope first and the module scope
\* second.  The result is Ok exactly when the mode scope is Any or holds the
\* current mode, and the module scope is Any, or no slot was given, or it
\* holds the module of the slot's table entry; a failed mode scope is
\* reported with the current mode, also when the module scope fails too; a
\* failed module scope alone is reported with the module of that entry.
ModeAccepted(p) == p.allowed_mode.any \/ p.op_mode \in p.allowed_mode.only

ModuleAccepted(p) ==
    \/ p.allowed_mod.any
    \/ p.slot = None
    \/ modules[p.slot[1]] \in p.allowed_mod.only

Validated == decoded # None /\ decoded[1].op = "check_command"

C38_ValidationProcedure ==
    Validated =>
        LET p == probe[1]
            out == decoded[1].out
        IN  /\ out.ok <=> ModeAccepted(p) /\ ModuleAccepted(p)
            /\ ~ModeAccepted(p) =>
                   out = Err(Error("InvalidParams",
                                   <<"Unsupported command", <<"M", "I", "S">>,
                                     "in mode", p.op_mode>>))
            /\ ModeAccepted(p) /\ ~ModuleAccepted(p) =>
                   out = Err(Error("InvalidParams",
                                   <<"Unsupported command", <<"M", "I", "S">>,
                                     "for module", FilledTable[p.slot[1]]>>))

\* A command failing both scopes was reported with the mode.
C38_Witness ==
    /\ Validated
    /\ ~ModeAccepted(probe[1])
    /\ ~ModuleAccepted(probe[1])
    /\ ~decoded[1].out.ok
    /\ decoded[1].out.err.msg[3] = "in mode"

\* A command restricted to modules was accepted without a slot.
C38_NoSlotAccepted ==
    /\ Validated
    /\ ~probe[1].allowed_mod.any
    /\ probe[1].slot = None
    /\ decoded[1].out.ok

\* C35: the module table always has six entries.  A call that left the
\* table changed was get_module_list; one that left the firmware version
\* changed was get_fw_version; one that left the stage list changed found it
\* empty, was an operation that validates a stage name, and stored the list
\* its own catalog query returned.  Every other call, failed or not, left
\* all three as they were.
StageValidatingOps ==
    {"move_stage_open", "enable_ext_input_mode", "get_current_position",
     "get_current_position_all", "read_neg_end_stop", "read_pos_end_stop",
     "enable_servodrive"}

C35_FrameConditions ==
    /\ DOMAIN modules = 1..6
    /\ call # Idle =>
           /\ modules # call.before.modules => call.op = "get_module_list"
           /\ fw_vers # call.before.fw_vers => call.op = "get_fw_version"
           /\ supported_stages # call.before.supported_stages =>
                  /\ call.before.supported_stages = <<>>
                  /\ call.op \in StageValidatingOps
                  /\ call.log[1].cmd = STAGES_cmd
                  /\ call.log[1].res = Ok(supported_stages)
           /\ call.op \notin StageValidatingOps \cup {"get_module_list", "get_fw_version"} =>
                  /\ modules = call.before.modules
                  /\ fw_vers = call.before.fw_vers
                  /\ supported_stages = call.before.supported_stages

\* A successful get_supported_stages on an empty cache returned a list and
\* left the cache empty, the table and the version as they were.
C35_Witness ==
    /\ Returned({"get_supported_stages"})
    /\ call.res.ok
    /\ call.res.val # <<>>
    /\ call.before.supported_stages = <<>>
    /\ supported_stages = <<>>
    /\ modules = call.before.modules
    /\ fw_vers = call.before.fw_vers

\* Each of the three was changed by its own operation.
C35_Changed ==
    /\ Returned(StageValidatingOps)
    /\ supported_stages # call.before.supported_stages
    /\ fw_vers # <<>>
    /\ modules # [i \in 1..6 |-> "Empty"]

\* C34: a transaction whose clear_output_buffer, clear_input_buffer,
\* write_all or flush failed ended with that I/O error without entering
\* read_chunks, so that no frame was decoded; nothing had been handed to
\* write_all when one of the two discards failed.  It was the last dispatch
\* of its call, the call returned its error, and the module table and the
\* firmware version are the ones the call started from; so is the stage
\* list, unless the call's own earlier catalog query had filled it.
WritePhase == {"clear_output_buffer", "clear_input_buffer", "write_all", "flush"}

WritePhaseFailed(d) == d.chan # None /\ d.chan[1].fail \in WritePhase

C34_WritePhaseFailure ==
    call # Idle =>
        \A i \in 1..Len(call.log) :
            LET d == call.log[i]
            IN  WritePhaseFailed(d) =>
                    /\ d.res = Err(Error("Io", <<d.chan[1].fail>>))
                    /\ ~d.read
                    /\ d.wrote = IF d.chan[1].fail \in {"write_all", "flush"}
                                 THEN <<d.cmd.payload>>
                                 ELSE <<>>
                    /\ i = Len(call.log)
                    /\ call.res = d.res
                    /\ modules = call.before.modules
                    /\ d.modules = call.before.modules
                    /\ fw_vers = call.before.fw_vers
                    /\ supported_stages =
                           IF /\ i = 2
                              /\ call.before.supported_stages = <<>>
                              /\ call.log[1].cmd = STAGES_cmd
                              /\ call.log[1].res.ok
                              /\ call.op \in StageValidatingOps
                           THEN call.log[1].res.val
                           ELSE call.before.supported_stages

\* A module-list refresh whose flush failed after the payload had been
\* handed to write_all, on a context whose table and version were filled.
C34_Witness ==
    /\ Returned({"get_module_list"})
    /\ Len(call.log) = 1
    /\ call.log[1].chan = Some(Behaviour("flush", <<>>))
    /\ call.log[1].wrote # <<>>
    /\ ~call.log[1].read
    /\ call.before.fw_vers # <<>>
    /\ call.before.modules # [i \in 1..6 |-> "Empty"]

\* A stage-validating call whose catalog query succeeded and whose own
\* command failed at the discard of the input buffer.
C34_AfterCatalog ==
    /\ Returned(StageValidatingOps)
    /\ Len(call.log) = 2
    /\ call.log[1].res.ok
    /\ call.log[2].chan = Some(Behaviour("clear_input_buffer", <<>>))
    /\ call.log[2].wrote = <<>>

\* C32: parse_frame of transport.rs turns every terminator-ended response
\* that does not begin with "Error" and holds no interior carriage return
\* into CommaDelimited with the text cut at its commas.
C32_CommaClassification ==
    Applied("transport_rs_parse_frame")
        /\ TerminatedText /\ ~starts_with(probe[1].bytes, ERROR_PREFIX)
        /\ count_char(Body, CR) = 0
    => /\ decoded[1].out.ok
       /\ decoded[1].out.val.kind = "CommaDelimited"
       /\ IsSplit(decoded[1].out.val.v, Body, COMMA)

\* parse_frame of transport.rs answers a response without an interior
\* carriage return with InvalidResponse, and cuts at its commas a response
\* that holds exactly one.
C32_TransportDecoding ==
    Applied("transport_rs_parse_frame")
        /\ TerminatedText /\ ~starts_with(probe[1].bytes, ERROR_PREFIX)
    => CASE count_char(Body, CR) = 0 ->
                decoded[1].out =
                    Err(Error("InvalidResponse", <<"Malformed Response", Body>>))
         [] count_char(Body, CR) = 1 ->
                decoded[1].out = Ok(Frame("CommaDelimited", split(Body, COMMA)))
         [] OTHER ->
                decoded[1].out = Ok(Frame("CrDelimited", split(Body, CR)))

\* C31: in read_chunks of transport.rs a read that gave bytes, with no more
\* than MAX_FRAME_SIZE bytes read in the transaction so far, raises no
\* BufOverflow, and while the loop runs the buffer holds exactly the bytes
\* the reads have given.
C31_ExactAccumulation ==
    conn.engine = "transport" /\ conn.last = "data"
        /\ conn.delivered <= MAX_FRAME_SIZE
    => /\ ResKind(conn.res) # "BufOverflow"
       /\ At = "read_chunks" => conn.rd.read_buf.n = conn.delivered

\* In transport.rs the first read that gives bytes ends the transaction
\* with BufOverflow for the number of bytes it gave, the buffer emptied.
C31_FirstReadOverflows ==
    conn.engine = "transport" /\ conn.last = "data"
    => /\ At = "idle"
       /\ conn.res = Some(BufOverflow(MAX_FRAME_SIZE, conn.delivered))
       /\ conn.delivered \in {1, READ_CHUNK_SIZE}
       /\ conn.rd.read_buf = EmptyBuf

\* C33: every transaction of transport.rs that reached its read phase has
\* discarded the input of the channel before it returns, whether it
\* returns a frame, a decoding error, BufOverflow or the I/O error of a
\* read (the overflow branch discards on its own).
C33_DiscardAfterRead ==
    conn.engine = "transport" /\ At = "idle" /\ conn.res # None
        /\ conn.last # "none"
    => conn.cleared_in \/ ResKind(conn.res) = "BufOverflow"

\* A transaction of transport.rs whose read failed returns without having
\* discarded the input, and bytes that waited in the channel still do.
C33_NoDiscardAfterIo ==
    conn.engine = "transport" /\ At = "idle" /\ conn.res = Some(Io("read"))
    => /\ ~conn.cleared_in
       /\ conn.began_stale => conn.chan_stale

\* C36: in transport/connection.rs, whenever the read loop has ended on a
\* read that gave bytes with the deadline not passed, the buffer handed to
\* parse_frame is the bytes the reads gave, no more than MAX_FRAME_SIZE of
\* them, ending in the terminator, whatever the sizes of the reads and
\* the would-block and timed-out results between them; and while the loop
\* runs the buffer holds exactly the bytes given so far.
C36_ChunkingIndependence ==
    conn.engine = "connection" =>
        /\ At = "read_chunks" /\ conn.reading =>
               /\ conn.rd.read_buf.n = conn.delivered
               /\ conn.rd.total_b_read = conn.delivered
        /\ At = "parse" /\ conn.last = "data" /\ ~conn.expired =>
               /\ conn.rd.read_buf = Bytes(conn.delivered, "crlf", FALSE)
               /\ conn.delivered <= MAX_FRAME_SIZE

\* The terminator came in two reads: a read of one byte, the line feed,
\* ended the loop after a full chunk and a poll artifact, and the buffer
\* ends in the terminator.
C36_Witness ==
    /\ conn.engine = "connection"
    /\ At = "parse"
    /\ conn.last = "data"
    /\ conn.last_n = 1
    /\ conn.polls = 1
    /\ ~conn.expired
    /\ conn.delivered = READ_CHUNK_SIZE + 1
    /\ conn.rd.read_buf = Bytes(READ_CHUNK_SIZE + 1, "crlf", FALSE)

\* A response of exactly MAX_FRAME_SIZE bytes came in full chunks.
C36_FullFrame ==
    /\ conn.engine = "connection"
    /\ At = "parse"
    /\ ~conn.expired
    /\ conn.rd.read_buf = Bytes(MAX_FRAME_SIZE, "crlf", FALSE)

\* C37: in transport/connection_async.rs the transaction that follows one
\* whose future was dropped at a read has discarded the input of the
\* channel before it writes, so that no byte of the dropped reply waits
\* there from the write on, and has emptied read_buf before it reads; its
\* buffer and the frame it returns hold none of the bytes of the dropped
\* reply that had arrived before it began.
C37_CancelledReplyDiscarded ==
    conn.engine = "async" /\ conn.prev = "cancelled" =>
        /\ At \in {"clear_output", "write_all", "flush", "read_chunks", "parse"} =>
               conn.cleared_in /\ ~conn.chan_stale
        /\ conn.reading \/ At = "parse" => ~conn.rd.read_buf.stale
        /\ Framed => ~conn.res[1].val.stale

\* After a dropped transaction that had read part of its reply, with the
\* rest waiting in the channel, the next one returned a frame of fresh
\* bytes ending in the terminator.
C37_Witness ==
    /\ conn.engine = "async"
    /\ conn.prev = "cancelled"
    /\ conn.began_stale
    /\ Framed
    /\ conn.res[1].val.n > 0
    /\ ends_with_terminator(conn.res[1].val)
    /\ ~conn.res[1].val.stale

\* A transaction was dropped with part of its reply in read_buf and the
\* rest in the channel.
C37_Dropped ==
    /\ conn.engine = "async"
    /\ At = "idle"
    /\ conn.last = "cancelled"
    /\ conn.rd.read_buf.n > 0
    /\ conn.rd.read_buf.stale
    /\ conn.chan_stale

\* C39: a builder handle of the Python bindings holds its inner builder
\* exactly as long as no next-stage method has been called on it; a call
\* on a handle already used returns the runtime error "Inner already
\* consumed", opens no transport, creates no controller and no handle,
\* and the first call on a handle never returns that error.
C39_SingleUse ==
    /\ \A i \in 1..Len(py.handles) :
           py.handles[i].inner # None <=> py.used[i] = 0
    /\ py.last # None =>
           LET l == py.last[1]
           IN  IF l.used_before > 0
               THEN /\ l.res = AlreadyConsumed
                    /\ py.opened = l.opened_before
                    /\ py.controllers = l.controllers_before
                    /\ Len(py.handles) = l.handles_before
               ELSE l.res # AlreadyConsumed

\* build was called again on a serial handle that had already built a
\* controller, and failed.
C39_Witness ==
    /\ py.last # None
    /\ py.last[1].method = "build"
    /\ py.handles[py.last[1].handle].stage = "Serial"
    /\ py.last[1].used_before = 1
    /\ py.last[1].res = AlreadyConsumed
    /\ py.controllers = 1
    /\ py.opened = 1

\* with_network was called on an initial handle that with_serial had
\* consumed.
C39_OtherStage ==
    /\ py.last # None
    /\ py.last[1].method = "with_network"
    /\ py.last[1].used_before = 1
    /\ py.last[1].res = AlreadyConsumed
    /\ \E i \in 1..Len(py.handles) : py.handles[i].stage = "Serial"
    /\ \A i \in 1..Len(py.handles) : py.handles[i].stage # "Network"

\* build was called on a network handle whose first build had failed to
\* open the transport.
C39_AfterFailedBuild ==
    /\ py.last # None
    /\ py.last[1].method = "build"
    /\ py.handles[py.last[1].handle].stage = "Network"
    /\ py.last[1].used_before = 1
    /\ py.last[1].res = AlreadyConsumed
    /\ py.opened = 0

============================================================================
